---- MODULE Spec2Model ----
(***************************************************************************)
(* Purchase-order ingestion: catalog validation engine, customer/catalog   *)
(* assignment pass, table extraction, column mapping and the document      *)
(* processing entry points, modelled as state machines.                    *)
(*                                                                         *)
(* Text values are sequences of one-character strings, so that strip,      *)
(* zero-padding, substring tests and numeric parsing are computed.         *)
(***************************************************************************)
EXTENDS Integers, Sequences, FiniteSets, TLC

(***************************************************************************)
(* Bounds of the model                                                     *)
(***************************************************************************)
MaxLines == 2

MaxQty == 11

MaxSkuLen == 3

MaxConds == 2

MaxCustomers == 2

MaxPages == 2

MaxTables == 2

MaxDocRows == 3

MaxTableRows == 2

\* strategies configured for one format
MaxStrategies == 3

\* formats of one batch
MaxFormats == 3

\* PO files in one format's folder
MaxFiles == 2

\* lines of one saved result
MaxSaveLines == 2

(***************************************************************************)
(* Text helpers (Python str semantics)                                     *)
(***************************************************************************)
Null == <<"<null>">>

Max(a, b) == IF a >= b THEN a ELSE b

Min(a, b) == IF a <= b THEN a ELSE b

DigitChars == <<"0", "1", "2", "3", "4", "5", "6", "7", "8", "9">>

IsDigit(c) == \E i \in 1..10 : DigitChars[i] = c

DigitVal(c) == (CHOOSE i \in 1..10 : DigitChars[i] = c) - 1

IsSpace(c) == c = " "

RECURSIVE LStrip(_)
LStrip(s) == IF s # <<>> /\ IsSpace(Head(s)) THEN LStrip(Tail(s)) ELSE s

RECURSIVE RStrip(_)
RStrip(s) ==
    IF s # <<>> /\ IsSpace(s[Len(s)]) THEN RStrip(SubSeq(s, 1, Len(s) - 1)) ELSE s

\* str.strip()
Strip(s) == RStrip(LStrip(s))

LowerAlpha ==
    <<"a", "b", "c", "d", "e", "f", "g", "h", "i", "j", "k", "l", "m",
      "n", "o", "p", "q", "r", "s", "t", "u", "v", "w", "x", "y", "z">>

UpperAlpha ==
    <<"A", "B", "C", "D", "E", "F", "G", "H", "I", "J", "K", "L", "M",
      "N", "O", "P", "Q", "R", "S", "T", "U", "V", "W", "X", "Y", "Z">>

UpperOf(c) ==
    IF \E i \in 1..26 : LowerAlpha[i] = c THEN UpperAlpha[CHOOSE i \in 1..26 : LowerAlpha[i] = c] ELSE c

LowerOf(c) ==
    IF \E i \in 1..26 : UpperAlpha[i] = c THEN LowerAlpha[CHOOSE i \in 1..26 : UpperAlpha[i] = c] ELSE c

\* str.upper()
Upper(s) == [i \in 1..Len(s) |-> UpperOf(s[i])]

\* str.lower()
Lower(s) == [i \in 1..Len(s) |-> LowerOf(s[i])]

\* str.startswith
StartsWith(s, p) == Len(p) <= Len(s) /\ SubSeq(s, 1, Len(p)) = p

\* str.endswith
EndsWith(s, p) == Len(p) <= Len(s) /\ SubSeq(s, Len(s) - Len(p) + 1, Len(s)) = p

\* the "in" operator on str: p is a substring of s
Contains(s, p) ==
    \E i \in 1..(Len(s) + 1) : i + Len(p) - 1 <= Len(s) /\ SubSeq(s, i, i + Len(p) - 1) = p

AllDigits(s) == \A i \in 1..Len(s) : IsDigit(s[i])

RECURSIVE ParseNat(_)
ParseNat(s) == IF s = <<>> THEN 0 ELSE 10 * ParseNat(SubSeq(s, 1, Len(s) - 1)) + DigitVal(s[Len(s)])

RECURSIVE NatToStr(_)
NatToStr(n) == IF n < 10 THEN <<DigitChars[n + 1]>> ELSE NatToStr(n \div 10) \o <<DigitChars[(n % 10) + 1]>>

\* str(int)
IntToStr(i) == IF i < 0 THEN <<"-">> \o NatToStr(-i) ELSE NatToStr(i)

RECURSIVE Zeros(_)
Zeros(n) == IF n <= 0 THEN <<>> ELSE <<"0">> \o Zeros(n - 1)

\* str.zfill(w): pads after a leading sign
ZFill(s, w) ==
    IF Len(s) >= w THEN s
    ELSE IF s # <<>> /\ Head(s) \in {"-", "+"} THEN <<Head(s)>> \o Zeros(w - Len(s)) \o Tail(s)
    ELSE Zeros(w - Len(s)) \o s

S_sentinel == <<"0", "0", "0", "0", "0", "0">>

S_empty == <<>>

S_nan == <<"n", "a", "n">>

S_None == <<"N", "o", "n", "e">>

S_NaN == <<"N", "a", "N">>

\* astype(str) / str(v) of a cell: a null cell prints as "None" (object null) or "nan" (float NaN)
AsStr(v) == IF v = Null THEN {S_None, S_nan} ELSE {v}

(***************************************************************************)
(* SKU normalization: the three implementations                            *)
(***************************************************************************)
NaN == [nan |-> TRUE, int |-> 0]

IsNumBody(b) ==
    /\ \A i \in 1..Len(b) : IsDigit(b[i]) \/ b[i] = "."
    /\ Cardinality({i \in 1..Len(b) : b[i] = "."}) <= 1
    /\ \E i \in 1..Len(b) : IsDigit(b[i])

IntPart(b) ==
    LET dots == {i \in 1..Len(b) : b[i] = "."}
        n == IF dots = {} THEN Len(b) ELSE (CHOOSE i \in dots : TRUE) - 1
    IN ParseNat(SubSeq(b, 1, n))

\* pd.to_numeric(value, errors="coerce") on text, with int(...) of the result:
\* an optionally signed decimal number, anything else is NaN
to_numeric(s) ==
    LET t == Strip(s)
        signed == t # <<>> /\ Head(t) \in {"-", "+"}
        b == IF signed THEN Tail(t) ELSE t
    IN IF IsNumBody(b)
       THEN [nan |-> FALSE, int |-> IF signed /\ Head(t) = "-" THEN 0 - IntPart(b) ELSE IntPart(b)]
       ELSE NaN

normalize_sku_nopad(sku_val) ==
    IF Strip(sku_val) \in {S_empty, S_nan, S_None, S_NaN} THEN S_sentinel
    ELSE IF to_numeric(sku_val).nan THEN S_sentinel
    ELSE IntToStr(to_numeric(sku_val).int)

\* ProductValidationService._normalize_skus.normalize_sku
normalize_sku(sku_val) ==
    IF Strip(sku_val) \in {S_empty, S_nan, S_None, S_NaN} THEN S_sentinel
    ELSE IF to_numeric(sku_val).nan THEN S_sentinel
    ELSE ZFill(IntToStr(to_numeric(sku_val).int), 6)

\* ProductValidationService._normalize_skus applied to one cell of the column
\* (astype(str).str.strip() first, then normalize_sku)
normalize_skus_cell(s) == normalize_sku(Strip(s))

\* DocumentProcessingService._map_to_bc_format, SKU column
bc_sku(s) == IF Strip(s) \in {S_empty, S_nan, S_None, S_NaN} THEN S_sentinel ELSE Strip(s)

\* DataMapper.map_table_to_lines, sku field of the POLine
mapper_sku(s) == IF Strip(s) \in {S_empty, S_nan, S_None} THEN S_sentinel ELSE Strip(s)

(***************************************************************************)
(* State                                                                   *)
(***************************************************************************)
\* ProductValidationService: the catalog and one validate_and_transform run
VARIABLES mercuriale_df, tfidf_ok, df_to_validate, has_unit, v_pc, df_processed, idx,
          clean_rows_list, faulty_rows_list, error_counter, stats, results

\* _apply_redux_coefficient on one row
VARIABLES rx_q, rx_coef, rx_out, rx_pc

\* SKU normalization of one cell by one of the three implementations
VARIABLES sku_in, sku_impl, sku_once, sku_twice, sku_pc

\* assignment pass
VARIABLES asg_impl, conditions, customers, mercuriales, cust_i, cond_i, assigned,
          assigned_count, unassigned_count, evaluated, asg_pc

\* table extraction
VARIABLES ext_rules, page_num, table_idx, rows_read, header_row, all_rows, footer_at,
          ext_df, ext_pc

\* document processing
VARIABLES doc_in, doc_result, doc_pc

\* customer resolution
VARIABLES cm_rules, cm_repo, cm_entity_code, cm_i, cm_tried, cm_result, cm_pc

\* batch over the configured formats
VARIABLES formats_config, bt_i, bt_partial, self_results, all_results, bt_pc

\* persisting one result
VARIABLES sv_result, sv_i, db_pending, db_committed, sv_saved, sv_pc

valVars == <<mercuriale_df, tfidf_ok, df_to_validate, has_unit, v_pc, df_processed, idx,
             clean_rows_list, faulty_rows_list, error_counter, stats, results>>

rxVars == <<rx_q, rx_coef, rx_out, rx_pc>>

skuVars == <<sku_in, sku_impl, sku_once, sku_twice, sku_pc>>

asgVars == <<asg_impl, conditions, customers, mercuriales, cust_i, cond_i, assigned,
            assigned_count, unassigned_count, evaluated, asg_pc>>

extVars == <<ext_rules, page_num, table_idx, rows_read, header_row, all_rows, footer_at,
            ext_df, ext_pc>>

docVars == <<doc_in, doc_result, doc_pc>>

cmVars == <<cm_rules, cm_repo, cm_entity_code, cm_i, cm_tried, cm_result, cm_pc>>

btVars == <<formats_config, bt_i, bt_partial, self_results, all_results, bt_pc>>

svVars == <<sv_result, sv_i, db_pending, db_committed, sv_saved, sv_pc>>

vars == <<valVars, rxVars, skuVars, asgVars, extVars, docVars, cmVars, btVars, svVars>>

\* what each component leaves alone
exceptVal == <<rxVars, skuVars, asgVars, extVars, docVars, cmVars, btVars, svVars>>

exceptRx == <<valVars, skuVars, asgVars, extVars, docVars, cmVars, btVars, svVars>>

exceptSku == <<valVars, rxVars, asgVars, extVars, docVars, cmVars, btVars, svVars>>

exceptAsg == <<valVars, rxVars, skuVars, extVars, docVars, cmVars, btVars, svVars>>

exceptExt == <<valVars, rxVars, skuVars, asgVars, docVars, cmVars, btVars, svVars>>

exceptDoc == <<valVars, rxVars, skuVars, asgVars, extVars, cmVars, btVars, svVars>>

exceptCm == <<valVars, rxVars, skuVars, asgVars, extVars, docVars, btVars, svVars>>

exceptBt == <<valVars, rxVars, skuVars, asgVars, extVars, docVars, cmVars, svVars>>

exceptSv == <<valVars, rxVars, skuVars, asgVars, extVars, docVars, cmVars, btVars>>

(***************************************************************************)
(* Catalog (mercuriale) loading                                            *)
(***************************************************************************)
\* a reduction coefficient is the rational n/d; d = 0 stands for a NULL column
CoefNull == [n |-> 0, d |-> 0]

Coef(n, d) == [n |-> n, d |-> d]

CoefOne == Coef(1, 1)

D_a == <<"s", "e", "l">>

D_a_padded == <<"s", "e", "l", " ">>

D_b == <<"r", "i", "z">>

D_z == <<"t", "h", "e">>

\* rows returned by the catalog query: sku, description, reduxcoef
DbRow(sku, description, reduxcoef) == [sku |-> sku, description |-> description, reduxcoef |-> reduxcoef]

DbCatalogs ==
    { <<>>,
      <<DbRow(<<"1">>, D_a, CoefNull)>>,
      <<DbRow(<<"1">>, D_a, Coef(2, 1)), DbRow(<<"2">>, D_b, Coef(1, 2))>>,
      <<DbRow(<<"2">>, Null, Coef(0, 1)), DbRow(<<"2">>, D_b, Coef(2, 1))>>,
      <<DbRow(<<"0">>, D_a, CoefOne), DbRow(<<"1">>, D_b, Coef(4, 1))>> }

\* ProductValidationService._load_mercuriale_data: one DataFrame row per query row
\* (result.description or "", result.reduxcoef or 1.0)
load_mercuriale_row(r) ==
    [sku |-> ZFill(r.sku, 6),
     description |-> IF r.description = Null THEN <<>> ELSE r.description,
     redux_coefficient |-> IF r.reduxcoef = CoefNull \/ r.reduxcoef.n = 0 THEN CoefOne ELSE r.reduxcoef]

_load_mercuriale_data(query_results) ==
    [i \in 1..Len(query_results) |-> load_mercuriale_row(query_results[i])]

(***************************************************************************)
(* Reduction coefficient                                                   *)
(***************************************************************************)
\* floor of n/d for d > 0
FloorDiv(n, d) == n \div d

\* Python round(n/d), d > 0: nearest integer, a tie goes to the even one
RoundHalfEven(n, d) ==
    LET fl == FloorDiv(n, d)
        r == n - fl * d
    IN IF 2 * r < d THEN fl
       ELSE IF 2 * r > d THEN fl + 1
       ELSE IF fl % 2 = 0 THEN fl ELSE fl + 1

\* round(q / c) for the rational c = n/d, n # 0
RoundQuotient(q, c) ==
    IF c.n > 0 THEN RoundHalfEven(q * c.d, c.n) ELSE RoundHalfEven(0 - q * c.d, 0 - c.n)

NoIssues ==
    [unauthorized_product |-> 0, description_corrected |-> 0, quantity_corrected |-> 0,
     sku_inferred |-> 0, carton_unit |-> 0]

_apply_redux_coefficient_nofloor(row, redux_coefficient, issues) ==
    IF redux_coefficient # CoefNull /\ redux_coefficient.n # 0 /\ redux_coefficient.n # redux_coefficient.d
    THEN [row |-> [row EXCEPT !.quantity = RoundQuotient(row.quantity, redux_coefficient)],
          issues |-> [issues EXCEPT !.quantity_corrected = @ + 1]]
    ELSE [row |-> row, issues |-> issues]

\* ProductValidationService._apply_redux_coefficient; redux_coefficient is
\* mercuriale_match.iloc[0]["redux_coefficient"]
_apply_redux_coefficient(row, redux_coefficient, issues) ==
    IF redux_coefficient # CoefNull /\ redux_coefficient.n # 0 /\ redux_coefficient.n # redux_coefficient.d
    THEN [row |-> [row EXCEPT !.quantity = Max(1, RoundQuotient(row.quantity, redux_coefficient))],
          issues |-> [issues EXCEPT !.quantity_corrected = @ + 1]]
    ELSE [row |-> row, issues |-> issues]

(***************************************************************************)
(* Catalog validation engine: per-row handlers                             *)
(***************************************************************************)
\* similarity scores are in hundredths; the floor passed by _handle_missing_sku
SimThreshold == 30

SimLevels == {29, 30, 65}

U_kg == <<"k", "g">>

U_CTN == <<"C", "T", "N">>

U_Carton == <<"1", " ", "C", "a", "r", "t", "o", "n">>

MsgCarton == <<"U", "n", "i", "t", "e", " ", "e", "n", " ", "c", "a", "r", "t", "o", "n">>

MsgUnauthorized == <<"P", "r", "o", "d", "u", "i", "t", " ", "n", "o", "n", " ", "a", "u", "t", "o", "r", "i", "s", "e">>

MsgInferredPrefix == <<"S", "K", "U", " ", "i", "n", "f", "e", "r", "e", " ", "(">>

\* f"{similarity:.2f}" of a score given in hundredths
Fmt2f(h) == NatToStr(h \div 100) \o <<".">> \o <<DigitChars[((h \div 10) % 10) + 1], DigitChars[(h % 10) + 1]>>

MsgInferred(similarity) == MsgInferredPrefix \o Fmt2f(similarity) \o <<")">>

\* row[self.OUTPUT_COLUMNS]: Type, SKU, Description, Comment, Quantity
OutputColumns(row) ==
    [type |-> row.type, sku |-> row.sku, description |-> row.description,
     comment |-> row.comment, quantity |-> row.quantity]

\* the synthetic row the three faulty handlers build
ErrorRow(counter, description) ==
    [type |-> "Error", sku |-> ZFill(IntToStr(counter), 6), description |-> description,
     comment |-> <<>>, quantity |-> 0]

\* self.mercuriale_df[self.mercuriale_df[SKU] == sku_val]
MercurialeMatch(sku_val) == SelectSeq(mercuriale_df, LAMBDA e : e.sku = sku_val)

\* ProductValidationService._is_carton_unit
_is_carton_unit(unit_val) ==
    LET unit_str == Lower(unit_val)
    IN \/ Contains(unit_str, <<"c", "a", "r", "t", "o", "n">>)
       \/ Contains(unit_str, <<"c", "t", "n">>)
       \/ Contains(unit_str, <<"c", "t", "n", ".">>)

\* indices np.argsort(similarities)[::-1][:1] may put first: argsort is not
\* stable, so any index holding the maximum
TopIndices(sims) == {i \in DOMAIN sims : \A j \in DOMAIN sims : sims[j] <= sims[i]}

find_product_by_description_nofloor(sims, best, raised, threshold) ==
    IF ~tfidf_ok THEN <<>>
    ELSE IF raised THEN <<>>
    ELSE << [sku |-> mercuriale_df[best].sku,
             description |-> mercuriale_df[best].description,
             similarity |-> sims[best]] >>

\* ProductValidationService.find_product_by_description with top_n = 1;
\* sims are the cosine similarities against the catalog, best the index argsort
\* puts first, raised whether the vectorizer raised
find_product_by_description(sims, best, raised, threshold) ==
    IF ~tfidf_ok THEN <<>>
    ELSE IF raised THEN <<>>
    ELSE IF sims[best] >= threshold
         THEN << [sku |-> mercuriale_df[best].sku,
                  description |-> mercuriale_df[best].description,
                  similarity |-> sims[best]] >>
         ELSE <<>>

_handle_carton_unit_swapped(row, counter, issues) ==
    [type |-> "faulty",
     rows |-> <<[OutputColumns(row) EXCEPT !.comment = <<>>], ErrorRow(counter, MsgCarton)>>,
     error_counter |-> counter,
     issues |-> [issues EXCEPT !.carton_unit = 1]]

\* ProductValidationService._handle_carton_unit
_handle_carton_unit(row, counter, issues) ==
    [type |-> "faulty",
     rows |-> <<ErrorRow(counter, MsgCarton), [OutputColumns(row) EXCEPT !.comment = <<>>]>>,
     error_counter |-> counter,
     issues |-> [issues EXCEPT !.carton_unit = 1]]

\* the counter handed back is the one received by _process_row
_handle_unauthorized_product_stale(row, counter, issues) ==
    [type |-> "faulty",
     rows |-> <<ErrorRow(counter, MsgUnauthorized), [OutputColumns(row) EXCEPT !.comment = <<>>]>>,
     error_counter |-> counter - 1,
     issues |-> [issues EXCEPT !.unauthorized_product = 1]]

\* the line passed through as a clean row, without an Error row
_handle_unauthorized_product_passed(row, counter, issues) ==
    [type |-> "clean",
     rows |-> <<[OutputColumns(row) EXCEPT !.comment = <<>>]>>,
     error_counter |-> counter - 1,
     issues |-> issues]

\* ProductValidationService._handle_unauthorized_product
_handle_unauthorized_product(row, counter, issues) ==
    [type |-> "faulty",
     rows |-> <<ErrorRow(counter, MsgUnauthorized), [OutputColumns(row) EXCEPT !.comment = <<>>]>>,
     error_counter |-> counter,
     issues |-> [issues EXCEPT !.unauthorized_product = 1]]

\* the inferred line passed on as a clean row
_handle_missing_sku_clean(row, counter, issues, sims, best, raised) ==
    LET description_matches == find_product_by_description(sims, best, raised, SimThreshold)
    IN IF description_matches = <<>>
       THEN _handle_unauthorized_product(row, counter, issues)
       ELSE [type |-> "clean",
             rows |-> <<OutputColumns([row EXCEPT !.sku = description_matches[1].sku,
                                                  !.description = description_matches[1].description,
                                                  !.comment = <<>>])>>,
             error_counter |-> counter - 1,
             issues |-> [issues EXCEPT !.sku_inferred = 1]]

\* ProductValidationService._handle_missing_sku
_handle_missing_sku(row, counter, issues, sims, best, raised) ==
    LET description_matches == find_product_by_description(sims, best, raised, SimThreshold)
    IN IF description_matches = <<>>
       THEN _handle_unauthorized_product(row, counter, issues)
       ELSE LET m == description_matches[1]
                corrected_row == [row EXCEPT !.sku = m.sku, !.description = m.description, !.comment = <<>>]
                mercuriale_match == MercurialeMatch(m.sku)
                applied == IF mercuriale_match # <<>>
                           THEN _apply_redux_coefficient(corrected_row, mercuriale_match[1].redux_coefficient, NoIssues).row
                           ELSE corrected_row
            IN [type |-> "faulty",
                rows |-> <<ErrorRow(counter, MsgInferred(m.similarity)), OutputColumns(applied)>>,
                error_counter |-> counter,
                issues |-> [issues EXCEPT !.sku_inferred = 1]]

\* the last catalog entry under the SKU taken as the official one
_handle_valid_product_last(clean_row, mercuriale_match, counter, issues) ==
    LET official_description == mercuriale_match[Len(mercuriale_match)].description
        differs == Strip(clean_row.description) # Strip(official_description)
        row1 == IF differs THEN [clean_row EXCEPT !.description = official_description] ELSE clean_row
        issues1 == IF differs THEN [issues EXCEPT !.description_corrected = 1] ELSE issues
        applied == _apply_redux_coefficient(row1, mercuriale_match[1].redux_coefficient, issues1)
    IN [type |-> "clean",
        rows |-> <<OutputColumns(applied.row)>>,
        error_counter |-> counter,
        issues |-> applied.issues]

\* ProductValidationService._handle_valid_product; a clean result carries one row
_handle_valid_product(clean_row, mercuriale_match, counter, issues) ==
    LET official_description == mercuriale_match[1].description
        differs == Strip(clean_row.description) # Strip(official_description)
        row1 == IF differs THEN [clean_row EXCEPT !.description = official_description] ELSE clean_row
        issues1 == IF differs THEN [issues EXCEPT !.description_corrected = 1] ELSE issues
        applied == _apply_redux_coefficient(row1, mercuriale_match[1].redux_coefficient, issues1)
    IN [type |-> "clean",
        rows |-> <<OutputColumns(applied.row)>>,
        error_counter |-> counter,
        issues |-> applied.issues]

\* the catalog looked at before the unit
_process_row_catalog_first(row, counter, sims, best, raised) ==
    LET clean_row == [row EXCEPT !.comment = <<>>]
        sku_val == clean_row.sku
        mercuriale_match == MercurialeMatch(sku_val)
    IN IF mercuriale_match # <<>>
       THEN _handle_valid_product(clean_row, mercuriale_match, counter, NoIssues)
       ELSE IF has_unit /\ _is_carton_unit(row.unit)
       THEN _handle_carton_unit(row, counter + 1, NoIssues)
       ELSE IF sku_val = S_sentinel
       THEN _handle_missing_sku(row, counter + 1, NoIssues, sims, best, raised)
       ELSE _handle_unauthorized_product(row, counter + 1, NoIssues)

\* ProductValidationService._process_row
_process_row(row, counter, sims, best, raised) ==
    LET clean_row == [row EXCEPT !.comment = <<>>]
        sku_val == clean_row.sku
        mercuriale_match == MercurialeMatch(sku_val)
    IN IF has_unit /\ _is_carton_unit(row.unit)
       THEN _handle_carton_unit(row, counter + 1, NoIssues)
       ELSE IF mercuriale_match = <<>> /\ sku_val = S_sentinel
       THEN _handle_missing_sku(row, counter + 1, NoIssues, sims, best, raised)
       ELSE IF mercuriale_match = <<>>
       THEN _handle_unauthorized_product(row, counter + 1, NoIssues)
       ELSE _handle_valid_product(clean_row, mercuriale_match, counter, NoIssues)

(***************************************************************************)
(* validate_and_transform                                                  *)
(***************************************************************************)
Line(sku, description, quantity, unit) ==
    [type |-> "Article", sku |-> sku, description |-> description, comment |-> <<>>,
     quantity |-> quantity, unit |-> unit]

\* canonical lines as the column mapper hands them over
LineInputs ==
    { Line(<<"1">>, D_a_padded, 1, U_kg),
      Line(<<"1">>, D_z, 3, U_kg),
      Line(<<"2">>, D_b, 2, U_kg),
      Line(<<"9">>, D_z, 1, U_kg),
      Line(S_sentinel, D_a, 2, U_kg),
      Line(<<"1">>, D_a, 1, U_CTN),
      Line(<<"x">>, D_b, 1, U_Carton) }

RECURSIVE SeqsUpTo(_, _)
SeqsUpTo(S, n) ==
    IF n = 0 THEN {<<>>}
    ELSE LET shorter == SeqsUpTo(S, n - 1)
         IN shorter \cup {Append(q, x) : q \in {t \in shorter : Len(t) = n - 1}, x \in S}

NoStats ==
    [total_rows |-> 0, clean_rows |-> 0, faulty_rows |-> 0, issues_found |-> NoIssues]

ValInit ==
    /\ \E query_results \in DbCatalogs :
          /\ mercuriale_df = _load_mercuriale_data(query_results)
          /\ tfidf_ok \in (IF query_results = <<>> THEN {FALSE} ELSE BOOLEAN)
    /\ df_to_validate \in SeqsUpTo(LineInputs, MaxLines)
    /\ has_unit \in BOOLEAN
    /\ v_pc = "start"
    /\ df_processed = <<>>
    /\ idx = 0
    /\ clean_rows_list = <<>>
    /\ faulty_rows_list = <<>>
    /\ error_counter = 0
    /\ stats = NoStats
    /\ results = <<>>

ValIdle ==
    /\ mercuriale_df = <<>>
    /\ tfidf_ok = FALSE
    /\ df_to_validate = <<>>
    /\ has_unit = FALSE
    /\ v_pc = "idle"
    /\ df_processed = <<>>
    /\ idx = 0
    /\ clean_rows_list = <<>>
    /\ faulty_rows_list = <<>>
    /\ error_counter = 0
    /\ stats = NoStats
    /\ results = <<>>

\* ProductValidationService._normalize_skus over the SKU column; a frame
\* without the "_unit" column carries no unit value
_normalize_skus(df) ==
    [i \in 1..Len(df) |->
        [df[i] EXCEPT !.sku = normalize_skus_cell(df[i].sku),
                      !.unit = IF has_unit THEN df[i].unit ELSE <<>>]]

\* validate_and_transform up to the row loop: copy, normalize, reset the tracking state
validate_and_transform_begin ==
    /\ v_pc = "start"
    /\ df_processed' = _normalize_skus(df_to_validate)
    /\ clean_rows_list' = <<>>
    /\ faulty_rows_list' = <<>>
    /\ error_counter' = 0
    /\ stats' = [NoStats EXCEPT !.total_rows = Len(df_to_validate)]
    /\ idx' = 1
    /\ v_pc' = "loop"
    /\ UNCHANGED <<mercuriale_df, tfidf_ok, df_to_validate, has_unit, results>>
    /\ UNCHANGED exceptVal

\* whether _process_row gets as far as transforming the description and
\* scoring it against the catalog (the similarities are an input only then)
MatchingRuns(row) ==
    /\ ~(has_unit /\ _is_carton_unit(row.unit))
    /\ MercurialeMatch(row.sku) = <<>>
    /\ row.sku = S_sentinel
    /\ tfidf_ok

faulty_rows_counted_per_line(result) == 1

\* stats["faulty_rows"] += len(result["rows"])
faulty_rows_counted(result) == Len(result.rows)

\* the rows put in front of the list
extend_front(list, rows) == rows \o list

\* faulty_rows_list.extend(result["rows"])
extend(list, rows) == list \o rows

\* one iteration of the row loop of validate_and_transform
validate_and_transform_row ==
    /\ v_pc = "loop"
    /\ idx <= Len(df_processed)
    /\ \E sims \in (IF MatchingRuns(df_processed[idx]) THEN [1..Len(mercuriale_df) -> SimLevels] ELSE {<<>>}),
          raised \in (IF MatchingRuns(df_processed[idx]) THEN BOOLEAN ELSE {FALSE}) :
         \E best \in (IF sims = <<>> THEN {0} ELSE TopIndices(sims)) :
            LET result == _process_row(df_processed[idx], error_counter, sims, best, raised)
            IN /\ IF result.type = "clean"
                  THEN /\ clean_rows_list' = Append(clean_rows_list, result.rows[1])
                       /\ stats' = [stats EXCEPT !.clean_rows = @ + 1,
                                                 !.issues_found = result.issues]
                       /\ UNCHANGED <<faulty_rows_list, error_counter>>
                  ELSE /\ faulty_rows_list' = extend(faulty_rows_list, result.rows)
                       /\ stats' = [stats EXCEPT !.faulty_rows = @ + faulty_rows_counted(result),
                                                 !.issues_found = result.issues]
                       /\ error_counter' = result.error_counter
                       /\ UNCHANGED clean_rows_list
               /\ results' = Append(results, [result |-> result, best |-> best,
                                                top |-> IF sims = <<>> THEN 0 ELSE sims[best], raised |-> raised])
    /\ idx' = idx + 1
    /\ UNCHANGED <<mercuriale_df, tfidf_ok, df_to_validate, has_unit, v_pc, df_processed>>
    /\ UNCHANGED exceptVal

\* the loop is over: the two frames and the statistics are returned
validate_and_transform_return ==
    /\ v_pc = "loop"
    /\ idx > Len(df_processed)
    /\ v_pc' = "done"
    /\ UNCHANGED <<mercuriale_df, tfidf_ok, df_to_validate, has_unit, df_processed, idx,
                   clean_rows_list, faulty_rows_list, error_counter, stats, results>>
    /\ UNCHANGED exceptVal

ValNext ==
    \/ validate_and_transform_begin
    \/ validate_and_transform_row
    \/ validate_and_transform_return

(***************************************************************************)
(* The reduction coefficient applied to one row                            *)
(***************************************************************************)
\* reduxcoef values as stored: NULL, 0, 1, 2, 4, 1/2, 3, 3/2, -2
StoredCoefs ==
    {CoefNull, Coef(0, 1), Coef(1, 1), Coef(2, 1), Coef(4, 1), Coef(1, 2), Coef(3, 1),
     Coef(3, 2), Coef(0 - 2, 1)}

RxInit ==
    /\ rx_q \in 0..MaxQty
    /\ rx_coef \in StoredCoefs
    /\ rx_out = [row |-> Line(<<"1">>, D_a, 0, U_kg), issues |-> NoIssues]
    /\ rx_pc = "start"

RxIdle ==
    /\ rx_q = 0
    /\ rx_coef = CoefNull
    /\ rx_out = [row |-> Line(<<"1">>, D_a, 0, U_kg), issues |-> NoIssues]
    /\ rx_pc = "idle"

\* the catalog row is loaded and its coefficient applied to a line of quantity rx_q
apply_redux ==
    /\ rx_pc = "start"
    /\ LET entry == load_mercuriale_row(DbRow(<<"1">>, D_a, rx_coef))
       IN rx_out' = _apply_redux_coefficient(Line(<<"1">>, D_a, rx_q, U_kg), entry.redux_coefficient, NoIssues)
    /\ rx_pc' = "done"
    /\ UNCHANGED <<rx_q, rx_coef>>
    /\ UNCHANGED exceptRx

RxNext == apply_redux

(***************************************************************************)
(* SKU normalization of one cell                                           *)
(***************************************************************************)
SkuChars == {"0", "1", "7", " ", "-", "."}

SkuInputs == SeqsUpTo(SkuChars, MaxSkuLen) \cup {Null, S_nan, S_None, S_NaN, S_sentinel, <<"x">>}

SkuImpls == {"ProductValidationService", "DocumentProcessingService", "DataMapper"}

SkuInit ==
    /\ sku_in \in SkuInputs
    /\ sku_impl \in SkuImpls
    /\ sku_once = <<>>
    /\ sku_twice = <<>>
    /\ sku_pc = "start"

SkuIdle ==
    /\ sku_in = <<>>
    /\ sku_impl = "DataMapper"
    /\ sku_once = <<>>
    /\ sku_twice = <<>>
    /\ sku_pc = "idle"

\* the SKU cell as the named implementation normalizes it
NormalizeBy(impl, text) ==
    CASE impl = "ProductValidationService" -> normalize_skus_cell(text)
      [] impl = "DocumentProcessingService" -> bc_sku(text)
      [] impl = "DataMapper" -> mapper_sku(text)

\* first pass over the extracted cell
sku_normalize ==
    /\ sku_pc = "start"
    /\ \E text \in AsStr(sku_in) : sku_once' = NormalizeBy(sku_impl, text)
    /\ sku_pc' = "once"
    /\ UNCHANGED <<sku_in, sku_impl, sku_twice>>
    /\ UNCHANGED exceptSku

\* the same implementation applied to its own output
sku_renormalize ==
    /\ sku_pc = "once"
    /\ sku_twice' = NormalizeBy(sku_impl, sku_once)
    /\ sku_pc' = "twice"
    /\ UNCHANGED <<sku_in, sku_impl, sku_once>>
    /\ UNCHANGED exceptSku

SkuNext == sku_normalize \/ sku_renormalize

(***************************************************************************)
(* Customer-to-catalog assignment pass                                     *)
(*   AssignmentImporter.assign_customers_to_mercuriales                    *)
(*   CustomerAssignmentImporter.assign_mercuriale_from_conditions          *)
(***************************************************************************)
T_sodexo_r == <<"S", "o", "d", "e", "x", "o", " ", "R">>

T_sodexo == <<"s", "o", "d", "e", "x", "o">>

T_so == <<"S", "O">>

T_elior == <<"E", "l", "i", "o", "r">>

T_ehpad == <<"e", "h", "p", "a", "d">>

T_Ehpad == <<"E", "h", "p", "a", "d">>

NoMercuriale == "<none>"

DefaultMercuriale == "mercuriale_medelys"

AsgImpls == {"AssignmentImporter", "CustomerAssignmentImporter"}

Condition(field, operator, value, mercuriale_name, priority, required) ==
    [field |-> field, operator |-> operator, value |-> value,
     mercuriale_name |-> mercuriale_name, priority |-> priority, required |-> required]

\* rows of customer_assignment_condition
ConditionPool ==
    { Condition("client_type", "equals", T_ehpad, "mercuriale_ehpad", 0, FALSE),
      Condition("name2", "contains", T_sodexo, "mercuriale_sodexo", 1, TRUE),
      Condition("region", "equals", T_ehpad, "mercuriale_ehpad", 1, TRUE),
      Condition("name2", "startswith", T_so, "mercuriale_ehpad", 2, TRUE),
      Condition("name2", "contains", T_so, "mercuriale_sodexo", 2, FALSE),
      Condition("name2", "regex", T_sodexo, "mercuriale_sodexo", 2, TRUE),
      Condition("client_type", "not_equals", T_ehpad, "mercuriale_medelys", 3, FALSE) }

CustomerRow(customer_number, name2, client_type, mercuriale) ==
    [customer_number |-> customer_number, name2 |-> name2,
     client_type |-> client_type, mercuriale |-> mercuriale]

\* rows of customer, with the binding each has before the pass
CustomerPool ==
    { CustomerRow("C001", T_sodexo_r, T_ehpad, NoMercuriale),
      CustomerRow("C002", Null, T_Ehpad, "mercuriale_sodexo"),
      CustomerRow("C003", T_elior, Null, NoMercuriale) }

\* names of the rows of mercuriale
MercurialeTables ==
    { {"mercuriale_medelys", "mercuriale_sodexo", "mercuriale_ehpad"},
      {"mercuriale_medelys", "mercuriale_ehpad"},
      {"mercuriale_sodexo", "mercuriale_ehpad"},
      {} }

\* sequences without repetition over S, of length at most n
DistinctSeqs(S, n) ==
    { s \in SeqsUpTo(S, n) : \A i, j \in 1..Len(s) : i # j => s[i] # s[j] }

\* order_by(priority.asc()): rows of equal priority come in either order
OrderedByPriority(S, n) ==
    { s \in DistinctSeqs(S, n) : \A i, j \in 1..Len(s) : i < j => s[i].priority <= s[j].priority }

\* getattr(customer, cond.field, None)
GetField(customer, field) ==
    IF field = "name2" THEN customer.name2
    ELSE IF field = "client_type" THEN customer.client_type
    ELSE Null

\* AssignmentImporter._apply_operator
_apply_operator(field_value, condition_value, operator) ==
    IF operator = "equals" THEN field_value = condition_value
    ELSE IF operator = "contains" THEN Contains(field_value, condition_value)
    ELSE IF operator = "not_equals" THEN field_value # condition_value
    ELSE IF operator = "startswith" THEN StartsWith(field_value, condition_value)
    ELSE IF operator = "endswith" THEN EndsWith(field_value, condition_value)
    ELSE FALSE

\* the operator chain of CustomerAssignmentImporter
match_inline(field_str, cond_val_str, operator) ==
    \/ operator = "equals" /\ field_str = cond_val_str
    \/ operator = "contains" /\ Contains(field_str, cond_val_str)
    \/ operator = "not_equals" /\ field_str # cond_val_str

ConditionMatches(impl, customer, cond) ==
    LET field_str == Upper(GetField(customer, cond.field))
        cond_value_str == Upper(cond.value)
    IN  IF impl = "AssignmentImporter"
        THEN _apply_operator(field_str, cond_value_str, cond.operator)
        ELSE match_inline(field_str, cond_value_str, cond.operator)

find_mercuriale_any(name) ==
    IF mercuriales = {} THEN NoMercuriale ELSE CHOOSE m \in mercuriales : TRUE

\* session.query(Mercuriale).filter_by(name=name).first()
find_mercuriale(name) == IF name \in mercuriales THEN name ELSE NoMercuriale

StopsAfter_never(cond, match) == FALSE

\* break after any match, required or not
StopsAfter_anyMatch(cond, match) == match

\* if cond.required: break   (inside "if match")
StopsAfter(cond, match) == match /\ cond.required

AsgInit ==
    /\ asg_impl \in AsgImpls
    /\ conditions \in OrderedByPriority(ConditionPool, MaxConds)
    /\ customers \in DistinctSeqs(CustomerPool, MaxCustomers)
    /\ mercuriales \in MercurialeTables
    /\ \A i \in 1..Len(customers) : customers[i].mercuriale \in mercuriales \cup {NoMercuriale}
    /\ cust_i = 0
    /\ cond_i = 0
    /\ assigned = FALSE
    /\ assigned_count = 0
    /\ unassigned_count = 0
    /\ evaluated = [c \in 1..Len(customers) |-> <<>>]
    /\ asg_pc = "start"

AsgIdle ==
    /\ asg_impl = "AssignmentImporter"
    /\ conditions = <<>>
    /\ customers = <<>>
    /\ mercuriales = {}
    /\ cust_i = 0
    /\ cond_i = 0
    /\ assigned = FALSE
    /\ assigned_count = 0
    /\ unassigned_count = 0
    /\ evaluated = <<>>
    /\ asg_pc = "idle"

\* where the pass goes when it turns to customer number c
CustomerEntry(c) ==
    IF c > Len(customers) THEN "commit"
    ELSE IF Len(conditions) = 0 THEN "default"
    ELSE "conditions"

\* load conditions and customers; AssignmentImporter returns at once when
\* there is no condition
assign_begin ==
    /\ asg_pc = "start"
    /\ IF asg_impl = "AssignmentImporter" /\ conditions = <<>>
       THEN /\ asg_pc' = "done"
            /\ UNCHANGED <<cust_i, cond_i>>
       ELSE /\ asg_pc' = CustomerEntry(1)
            /\ cust_i' = 1
            /\ cond_i' = 1
    /\ assigned' = FALSE
    /\ UNCHANGED <<asg_impl, conditions, customers, mercuriales, assigned_count,
                   unassigned_count, evaluated>>
    /\ UNCHANGED exceptAsg

\* one iteration of "for cond in conditions"
evaluate_condition ==
    /\ asg_pc = "conditions"
    /\ LET customer == customers[cust_i]
           cond == conditions[cond_i]
           skipped == GetField(customer, cond.field) = Null
           match == ~skipped /\ ConditionMatches(asg_impl, customer, cond)
           mercuriale == find_mercuriale(cond.mercuriale_name)
           stop == ~skipped /\ StopsAfter(cond, match)
       IN  /\ evaluated' = [evaluated EXCEPT ![cust_i] =
                               Append(@, [cond |-> cond_i, skipped |-> skipped, match |-> match])]
           /\ IF match /\ mercuriale # NoMercuriale
              THEN /\ customers' = [customers EXCEPT ![cust_i].mercuriale = mercuriale]
                   /\ assigned' = TRUE
                   /\ assigned_count' = assigned_count + 1
              ELSE UNCHANGED <<customers, assigned, assigned_count>>
           /\ IF stop \/ cond_i = Len(conditions)
              THEN /\ asg_pc' = "default"
                   /\ UNCHANGED cond_i
              ELSE /\ cond_i' = cond_i + 1
                   /\ UNCHANGED asg_pc
    /\ UNCHANGED <<asg_impl, conditions, mercuriales, cust_i, unassigned_count>>
    /\ UNCHANGED exceptAsg

\* the default catalog is bound whether it was found or not
default_step_clearing(binding, was_assigned) ==
    IF ~was_assigned THEN find_mercuriale(DefaultMercuriale) ELSE binding

\* "if not assigned": the customer's catalog after the default step, the
\* default catalog when it is found and the binding as it was otherwise
default_step(binding, was_assigned) ==
    IF ~was_assigned /\ find_mercuriale(DefaultMercuriale) # NoMercuriale
    THEN find_mercuriale(DefaultMercuriale)
    ELSE binding

\* the conditions from position j on applied to one customer, as the loop
\* "for cond in conditions" does: the catalog bound and the assigned flag
RECURSIVE conditions_from(_, _, _, _)
conditions_from(customer, j, binding, was_assigned) ==
    IF j > Len(conditions) THEN [mercuriale |-> binding, assigned |-> was_assigned]
    ELSE LET cond == conditions[j]
             skipped == GetField(customer, cond.field) = Null
             match == ~skipped /\ ConditionMatches(asg_impl, customer, cond)
             bound == match /\ find_mercuriale(cond.mercuriale_name) # NoMercuriale
             after == IF bound THEN find_mercuriale(cond.mercuriale_name) ELSE binding
         IN  IF ~skipped /\ StopsAfter(cond, match)
             THEN [mercuriale |-> after, assigned |-> was_assigned \/ bound]
             ELSE conditions_from(customer, j + 1, after, was_assigned \/ bound)

\* the catalog one customer is bound to after a whole pass over the current
\* conditions and catalogs
assign_customer(customer) ==
    IF asg_impl = "AssignmentImporter" /\ conditions = <<>>
    THEN customer.mercuriale
    ELSE LET r == conditions_from(customer, 1, customer.mercuriale, FALSE)
         IN  default_step(r.mercuriale, r.assigned)

\* after the conditions of one customer: the default catalog when nothing
\* was assigned, then the next customer
assign_default ==
    /\ asg_pc = "default"
    /\ customers' = [customers EXCEPT ![cust_i].mercuriale = default_step(@, assigned)]
    /\ unassigned_count' = IF ~assigned /\ find_mercuriale(DefaultMercuriale) # NoMercuriale
                           THEN unassigned_count + 1
                           ELSE unassigned_count
    /\ cust_i' = cust_i + 1
    /\ cond_i' = 1
    /\ assigned' = FALSE
    /\ asg_pc' = CustomerEntry(cust_i + 1)
    /\ UNCHANGED <<asg_impl, conditions, mercuriales, assigned_count, evaluated>>
    /\ UNCHANGED exceptAsg

\* session.commit() of the assignments
assign_commit ==
    /\ asg_pc = "commit"
    /\ asg_pc' = "done"
    /\ UNCHANGED <<asg_impl, conditions, customers, mercuriales, cust_i, cond_i, assigned,
                   assigned_count, unassigned_count, evaluated>>
    /\ UNCHANGED exceptAsg

AsgNext == assign_begin \/ evaluate_condition \/ assign_default \/ assign_commit

(***************************************************************************)
(* Table extraction: PDFExtractor.extract_table_data                       *)
(* The document is read page by page, table by table, row by row; the      *)
(* rows are inputs drawn as the loops reach them.                          *)
(***************************************************************************)
T_total == <<"t", "o", "t", "a", "l">>

T_Total_HT == <<"T", "o", "t", "a", "l", " ", "H", "T">>

T_Code == <<"C", "o", "d", "e">>

T_Qte == <<"Q", "t", "e">>

T_Des == <<"D", "e", "s">>

T_123 == <<"1", "2", "3">>

T_blank == <<" ">>

T_2 == <<"2">>

\* a table row as pdfplumber returns it (cells are text or None) with the
\* SequenceMatcher ratio, in hundredths, of its joined text to header_fuzzy
TableRow(cells, ratio) == [cells |-> cells, ratio |-> ratio]

R_header == TableRow(<<T_Code, T_Des, T_Qte>>, 90)

R_data == TableRow(<<T_123, D_a_padded, T_2>>, 10)

R_wide == TableRow(<<T_123, D_b, T_2, U_kg>>, 10)

R_footer == TableRow(<<T_Total_HT, D_z, T_2>>, 10)

R_footer_short == TableRow(<<T_Total_HT, Null, T_2>>, 10)

R_short == TableRow(<<Null, D_a, S_empty>>, 10)

\* three cells, one of them whitespace only
R_blank == TableRow(<<T_blank, D_b, T_2>>, 10)

R_none == TableRow(<<>>, 0)

RowPool == {R_header, R_data, R_wide, R_footer, R_footer_short, R_short, R_blank, R_none}

ExtractionRules(header_fuzzy, min_columns, skip_footer_keywords, fuzzy_threshold) ==
    [header_fuzzy |-> header_fuzzy, min_columns |-> min_columns,
     skip_footer_keywords |-> skip_footer_keywords, fuzzy_threshold |-> fuzzy_threshold]

\* ExtractionRulesLoader.load_from_csv on an empty skip_footer_keywords cell:
\* ''.split(';') is the list holding the empty keyword
KeywordsOfEmptyCell == {<<>>}

\* self.rules of the format in use
RulesPool ==
    { ExtractionRules(T_Code, 3, {T_total}, 80),
      ExtractionRules(<<>>, 3, {T_total}, 80),
      ExtractionRules(T_Code, 3, {}, 80),
      ExtractionRules(T_Code, 3, KeywordsOfEmptyCell, 80) }

\* "if c": a cell that is neither None nor empty
Truthy(c) == c # Null /\ c # <<>>

\* len(row): every cell counted, the empty ones too
NonEmptyCells_all(row) == Len(row.cells)

\* len([c for c in row if c])
NonEmptyCells(row) == Cardinality({i \in 1..Len(row.cells) : Truthy(row.cells[i])})

\* str(row[0] or '').lower()
FirstCell(row) == IF Truthy(row.cells[1]) THEN Lower(row.cells[1]) ELSE <<>>

\* any(kw.lower() in first_cell for kw in skip_keywords)
IsFooter(row, skip_keywords) == \E kw \in skip_keywords : Contains(FirstCell(row), Lower(kw))

\* no row is similar enough to the header phrase
_fuzzy_match_never(ratio, threshold) == FALSE

\* PDFExtractor._fuzzy_match
_fuzzy_match(ratio, threshold) == ratio >= threshold

\* [str(c).strip() if c else '' for c in row]
CleanCells(row) == [i \in 1..Len(row.cells) |-> IF Truthy(row.cells[i]) THEN Strip(row.cells[i]) ELSE <<>>]

EmptyFrame == [columns |-> <<>>, rows |-> <<>>]

\* pd.DataFrame(rows, columns=columns): shorter rows are padded with None;
\* it raises when the widest row is not as wide as the columns, and
\* extract_table_data then returns an empty frame
DataFrame(rows, columns) ==
    IF rows = <<>> \/ (/\ \A i \in 1..Len(rows) : Len(rows[i]) <= Len(columns)
                       /\ \E i \in 1..Len(rows) : Len(rows[i]) = Len(columns))
    THEN [columns |-> columns,
          rows |-> [i \in 1..Len(rows) |->
                      [j \in 1..Len(columns) |-> IF j <= Len(rows[i]) THEN rows[i][j] ELSE Null]]]
    ELSE EmptyFrame

NoHeader == <<"<none>">>

ExtInit ==
    /\ ext_rules \in RulesPool
    /\ page_num = 0
    /\ table_idx = 0
    /\ rows_read = 0
    /\ header_row = NoHeader
    /\ all_rows = <<>>
    /\ footer_at = -1
    /\ ext_df = EmptyFrame
    /\ ext_pc = "pages"

ExtIdle ==
    /\ ext_rules = ExtractionRules(<<>>, 3, {}, 80)
    /\ page_num = 0
    /\ table_idx = 0
    /\ rows_read = 0
    /\ header_row = NoHeader
    /\ all_rows = <<>>
    /\ footer_at = -1
    /\ ext_df = EmptyFrame
    /\ ext_pc = "idle"

\* for page_num, page in enumerate(pdf.pages, 1)
next_page ==
    /\ ext_pc = "pages"
    /\ page_num < MaxPages
    /\ page_num' = page_num + 1
    /\ table_idx' = 0
    /\ ext_pc' = "tables"
    /\ UNCHANGED <<ext_rules, rows_read, header_row, all_rows, footer_at, ext_df>>
    /\ UNCHANGED exceptExt

\* for table_idx, table in enumerate(tables, 1)
next_table ==
    /\ ext_pc = "tables"
    /\ table_idx < MaxTables
    /\ table_idx' = table_idx + 1
    /\ ext_pc' = "rows"
    /\ UNCHANGED <<ext_rules, page_num, rows_read, header_row, all_rows, footer_at, ext_df>>
    /\ UNCHANGED exceptExt

\* one iteration of "for row_idx, row in enumerate(table)"
process_table_row ==
    /\ ext_pc = "rows"
    /\ rows_read < MaxDocRows
    /\ \E row \in RowPool :
          /\ rows_read' = rows_read + 1
          /\ IF row.cells = <<>> \/ NonEmptyCells(row) < ext_rules.min_columns
             THEN UNCHANGED <<header_row, all_rows, footer_at, ext_pc>>
             ELSE IF IsFooter(row, ext_rules.skip_footer_keywords)
             THEN /\ ext_pc' = "tables"
                  /\ footer_at' = IF footer_at = -1 THEN Len(all_rows) ELSE footer_at
                  /\ UNCHANGED <<header_row, all_rows>>
             ELSE IF /\ header_row = NoHeader
                     /\ ext_rules.header_fuzzy # <<>>
                     /\ _fuzzy_match(row.ratio, ext_rules.fuzzy_threshold)
             THEN /\ header_row' = CleanCells(row)
                  /\ UNCHANGED <<all_rows, footer_at, ext_pc>>
             ELSE /\ all_rows' = Append(all_rows, CleanCells(row))
                  /\ UNCHANGED <<header_row, footer_at, ext_pc>>
    /\ UNCHANGED <<ext_rules, page_num, table_idx, ext_df>>
    /\ UNCHANGED exceptExt

\* the rows of the table are exhausted
end_table ==
    /\ ext_pc = "rows"
    /\ ext_pc' = "tables"
    /\ UNCHANGED <<ext_rules, page_num, table_idx, rows_read, header_row, all_rows, footer_at, ext_df>>
    /\ UNCHANGED exceptExt

\* the tables of the page are exhausted (or the page has none)
end_page ==
    /\ ext_pc = "tables"
    /\ ext_pc' = "pages"
    /\ UNCHANGED <<ext_rules, page_num, table_idx, rows_read, header_row, all_rows, footer_at, ext_df>>
    /\ UNCHANGED exceptExt

\* after the loops: build the frame
extract_return ==
    /\ ext_pc = "pages"
    /\ ext_df' = IF all_rows = <<>> THEN EmptyFrame
                 ELSE IF header_row # NoHeader THEN DataFrame(all_rows, header_row)
                 ELSE DataFrame(Tail(all_rows), Head(all_rows))
    /\ ext_pc' = "returned"
    /\ UNCHANGED <<ext_rules, page_num, table_idx, rows_read, header_row, all_rows, footer_at>>
    /\ UNCHANGED exceptExt

ExtNext ==
    next_page \/ next_table \/ process_table_row \/ end_table \/ end_page \/ extract_return

(***************************************************************************)
(* Column mapping: difflib.SequenceMatcher ratio, DocumentProcessing-      *)
(* Service._map_to_bc_format and DataMapper.map_table_to_lines             *)
(***************************************************************************)
\* the matching blocks <<i, j, k>>: a[i .. i+k-1] = b[j .. j+k-1]
CommonBlocks(a, b) ==
    { m \in (1..Len(a)) \X (1..Len(b)) \X (1..Min(Len(a), Len(b))) :
        /\ m[1] + m[3] - 1 <= Len(a)
        /\ m[2] + m[3] - 1 <= Len(b)
        /\ SubSeq(a, m[1], m[1] + m[3] - 1) = SubSeq(b, m[2], m[2] + m[3] - 1) }

\* SequenceMatcher.find_longest_match: the longest block, of those the one
\* starting earliest in a, of those the one starting earliest in b
LongestMatch(a, b) ==
    CHOOSE m \in CommonBlocks(a, b) :
        \A o \in CommonBlocks(a, b) :
            \/ o[3] < m[3]
            \/ o[3] = m[3] /\ (m[1] < o[1] \/ (m[1] = o[1] /\ m[2] <= o[2]))

\* the number of matched characters (sum of the matching blocks' sizes)
RECURSIVE MatchingChars(_, _)
MatchingChars(a, b) ==
    IF CommonBlocks(a, b) = {} THEN 0
    ELSE LET m == LongestMatch(a, b)
         IN  m[3] + MatchingChars(SubSeq(a, 1, m[1] - 1), SubSeq(b, 1, m[2] - 1))
                  + MatchingChars(SubSeq(a, m[1] + m[3], Len(a)), SubSeq(b, m[2] + m[3], Len(b)))

\* SequenceMatcher(None, a.lower(), b.lower()).ratio() >= threshold, the
\* threshold in hundredths; the ratio of two empty texts is 1.0
RatioAtLeast(a, b, threshold) ==
    IF Len(a) + Len(b) = 0 THEN TRUE
    ELSE 200 * MatchingChars(Lower(a), Lower(b)) >= threshold * (Len(a) + Len(b))

ColumnThreshold == 80

\* DocumentProcessingService._fuzzy_match
dp_fuzzy_match(cell, keyword, threshold) == cell # <<>> /\ RatioAtLeast(cell, keyword, threshold)

NoColumn == <<"<none>">>

\* first index of seq satisfying the test given as a set of passing indices
FirstIndex(passing) == CHOOSE i \in passing : \A o \in passing : i <= o

\* DocumentProcessingService._find_matching_column
_find_matching_column(actual_columns, possible_names) ==
    LET hits == {i \in 1..Len(actual_columns) :
                    \E n \in 1..Len(possible_names) :
                        dp_fuzzy_match(actual_columns[i], possible_names[n], ColumnThreshold)}
    IN  IF hits = {} THEN NoColumn ELSE actual_columns[FirstIndex(hits)]

\* DataMapper._find_column
_find_column(columns, possible_names) ==
    LET hits == {i \in 1..Len(columns) :
                    \E n \in 1..Len(possible_names) :
                        RatioAtLeast(columns[i], possible_names[n], ColumnThreshold)}
    IN  IF hits = {} THEN NoColumn ELSE columns[FirstIndex(hits)]

\* df[col] of one row (column names are distinct)
Cell(df, row, col) == row[CHOOSE i \in 1..Len(df.columns) : df.columns[i] = col]

\* df.empty
IsEmptyFrame(df) == Len(df.columns) = 0 \/ Len(df.rows) = 0

\* str.replace(",", ".")
CommaToDot(s) == [i \in 1..Len(s) |-> IF s[i] = "," THEN "." ELSE s[i]]

\* end of the run of digits that starts at position i
RECURSIVE DigitRunEnd(_, _)
DigitRunEnd(s, i) == IF i < Len(s) /\ IsDigit(s[i + 1]) THEN DigitRunEnd(s, i + 1) ELSE i

\* str.extract(r"(\d+(?:\.\d+)?)"): the first numeric token, as its integer
\* and fraction digits
FirstNumericToken(s) ==
    LET starts == {i \in 1..Len(s) : IsDigit(s[i])}
    IN  IF starts = {} THEN [found |-> FALSE, int |-> <<>>, frac |-> <<>>]
        ELSE LET i == FirstIndex(starts)
                 j == DigitRunEnd(s, i)
                 hasFrac == j + 2 <= Len(s) /\ s[j + 1] = "." /\ IsDigit(s[j + 2])
             IN  [found |-> TRUE,
                  int |-> SubSeq(s, i, j),
                  frac |-> IF hasFrac THEN SubSeq(s, j + 2, DigitRunEnd(s, j + 2)) ELSE <<>>]

\* numpy round (ties to even) of a decimal token, then astype(int)
RoundToken(tok) ==
    LET n == ParseNat(tok.int)
        f == tok.frac
        restZero == \A k \in 2..Len(f) : f[k] = "0"
    IN  IF f = <<>> \/ DigitVal(f[1]) < 5 THEN n
        ELSE IF DigitVal(f[1]) > 5 \/ ~restZero THEN n + 1
        ELSE IF n % 2 = 0 THEN n ELSE n + 1

\* default quantity processing of _map_to_bc_format
dp_quantity(value) ==
    LET s == IF value = <<>> THEN <<"0">> ELSE value
        tok == FirstNumericToken(CommaToDot(s))
    IN  IF ~tok.found THEN 0 ELSE RoundToken(tok)

\* re.sub(r'[^\d.]', '', value)
RECURSIVE KeepDigitsAndDots(_)
KeepDigitsAndDots(s) ==
    IF s = <<>> THEN <<>>
    ELSE IF IsDigit(Head(s)) \/ Head(s) = "." THEN <<Head(s)>> \o KeepDigitsAndDots(Tail(s))
    ELSE KeepDigitsAndDots(Tail(s))

\* DataMapper._parse_quantity: int(float(value)) truncates; a text float()
\* rejects gives 0
_parse_quantity(value) ==
    LET v == KeepDigitsAndDots(Strip(CommaToDot(value)))
        dots == {i \in 1..Len(v) : v[i] = "."}
    IN  IF v = <<>> \/ Cardinality(dots) > 1 \/ Cardinality(dots) = Len(v) THEN 0
        ELSE IF dots = {} THEN ParseNat(v)
        ELSE ParseNat(SubSeq(v, 1, FirstIndex(dots) - 1))

T_Libelle == <<"L", "i", "b", "e", "l", "l", "e">>

T_Unite == <<"U", "n", "i", "t", "e">>

T_SKU == <<"S", "K", "U">>

T_Ref == <<"R", "e", "f">>

T_Prix == <<"P", "r", "i", "x">>

T_Cod == <<"C", "o", "d">>

T_1c5 == <<"1", ",", "5">>

T_x == <<"x">>

\* column_mapping of a format: candidate names per canonical column
column_mapping ==
    [SKU |-> <<T_Code, T_SKU>>, DESCRIPTION |-> <<T_Libelle>>,
     QUANTITY |-> <<T_Qte>>, UNIT |-> <<T_Unite>>]

RequiredColumns == <<"SKU", "DESCRIPTION", "QUANTITY">>

\* the filter keeps the order of the sequence
RECURSIVE SelectSeq2(_, _)
SelectSeq2(s, keep) ==
    IF s = <<>> THEN <<>>
    ELSE (IF Head(s) \in keep THEN <<Head(s)>> ELSE <<>>) \o SelectSeq2(Tail(s), keep)

\* the entries of s at the indices in keep, in order (a boolean-mask filter)
TakeIndices(s, keep) ==
    [k \in 1..Cardinality(keep) |->
        s[CHOOSE i \in keep : Cardinality({o \in keep : o < i}) = k - 1]]

\* _map_to_bc_format once the columns are looked up (mapped_columns gives
\* the header found for each canonical column, or NoColumn)
bc_rows(df, mapped_columns) ==
    LET missing_cols ==
            SelectSeq2(RequiredColumns, {c \in DOMAIN mapped_columns : mapped_columns[c] = NoColumn})
        line(row) ==
            [type |-> "Article",
             sku |-> bc_sku(Cell(df, row, mapped_columns["SKU"])),
             description |-> Cell(df, row, mapped_columns["DESCRIPTION"]),
             comment |-> <<>>,
             quantity |-> dp_quantity(Cell(df, row, mapped_columns["QUANTITY"])),
             unit |-> IF mapped_columns["UNIT"] # NoColumn
                      THEN Strip(Cell(df, row, mapped_columns["UNIT"])) ELSE Null]
        lines == [i \in 1..Len(df.rows) |-> line(df.rows[i])]
        valid == {i \in 1..Len(lines) : Strip(lines[i].description) # <<>> /\ lines[i].quantity > 0}
    IN  IF missing_cols # <<>> THEN [raised |-> TRUE, missing |-> missing_cols, rows |-> <<>>]
        ELSE [raised |-> FALSE, missing |-> <<>>, rows |-> TakeIndices(lines, valid)]

\* DocumentProcessingService._map_to_bc_format: the mapped lines, or the
\* ValueError naming the required columns that found no header
_map_to_bc_format(df) ==
    IF IsEmptyFrame(df) THEN [raised |-> FALSE, missing |-> <<>>, rows |-> <<>>]
    ELSE bc_rows(df, [c \in {"SKU", "DESCRIPTION", "QUANTITY", "UNIT"} |->
                        _find_matching_column(df.columns, column_mapping[c])])

\* map_table_to_lines once the columns are looked up
po_lines(df, sku_col, desc_col, qty_col, unit_col) ==
    LET line(row) ==
            [sku |-> mapper_sku(Cell(df, row, sku_col)),
             description |-> Strip(Cell(df, row, desc_col)),
             quantity |-> _parse_quantity(Cell(df, row, qty_col)),
             unit |-> IF unit_col # NoColumn THEN Strip(Cell(df, row, unit_col)) ELSE Null]
        lines == [i \in 1..Len(df.rows) |-> line(df.rows[i])]
        valid == {i \in 1..Len(lines) : lines[i].description # <<>> /\ lines[i].quantity > 0}
    IN  IF NoColumn \in {sku_col, desc_col, qty_col} THEN <<>>
        ELSE TakeIndices(lines, valid)

\* DataMapper.map_table_to_lines: the POLine list, empty when the frame is
\* empty or a required column found no header
map_table_to_lines(df) ==
    IF IsEmptyFrame(df) THEN <<>>
    ELSE po_lines(df, _find_column(df.columns, column_mapping["SKU"]),
                      _find_column(df.columns, column_mapping["DESCRIPTION"]),
                      _find_column(df.columns, column_mapping["QUANTITY"]),
                      _find_column(df.columns, column_mapping["UNIT"]))

(***************************************************************************)
(* Document processing entry points                                        *)
(*   DocumentProcessingService.process_document                            *)
(*   PurchaseOrderService.process_file                                     *)
(*   PurchaseOrderPipeline.process_single_file                             *)
(***************************************************************************)
\* table rows as extracted: SKU, description, quantity, unit cells
RawRows ==
    { <<T_123, D_a, T_2, U_kg>>,
      <<S_empty, D_b, T_1c5, U_CTN>>,
      <<S_NaN, S_empty, T_2, U_kg>>,
      <<T_2, D_z, T_x, U_kg>> }

\* header rows as extracted
RawHeaders ==
    { <<T_Code, T_Libelle, T_Qte>>,
      <<T_Code, T_Libelle, T_Qte, T_Unite>>,
      <<T_Cod, T_Libelle, T_Qte>>,
      <<T_Ref, T_Libelle, T_Qte>>,
      <<T_Code, T_Libelle, T_Prix>> }

\* the frames table extraction can hand over: every row as wide as the header
RawFrames ==
    {EmptyFrame} \cup
    { [columns |-> h, rows |-> [i \in 1..Len(rs) |-> SubSeq(rs[i], 1, Len(h))]] :
        h \in RawHeaders, rs \in SeqsUpTo(RawRows, MaxTableRows) }

DocEntries == {"process_document", "process_file", "process_single_file"}

DocInput(entry, format_known, suffix, has_rules, file_exists, full_text, table) ==
    [entry |-> entry, format_known |-> format_known, suffix |-> suffix, has_rules |-> has_rules,
     file_exists |-> file_exists, full_text |-> full_text, table |-> table]

\* a dict that is None or {}
NoDict == <<>>

\* a frame or line list that was never set
Unset == [set |-> FALSE, rows |-> <<>>]

Lines(rows) == [set |-> TRUE, rows |-> rows]

NoError == ""

\* ProcessingResult(customer, file_path, success=False)
ProcessingResult ==
    [success |-> FALSE, error_message |-> NoError, missing |-> <<>>, processed_df |-> Unset,
     clean_df |-> Unset, faulty_df |-> Unset, stats |-> NoDict]

DocInit ==
    /\ doc_in \in
         { DocInput("process_document", k, s, r, TRUE, TRUE, t) :
             k \in BOOLEAN, s \in {".pdf", ".csv", ".xls"}, r \in BOOLEAN, t \in RawFrames }
         \cup
         { DocInput("process_file", k, ".pdf", TRUE, TRUE, x, t) :
             k \in BOOLEAN, x \in BOOLEAN, t \in RawFrames }
         \cup
         { DocInput("process_single_file", TRUE, s, TRUE, e, TRUE, t) :
             s \in {".pdf", ".csv"}, e \in BOOLEAN, t \in RawFrames }
    /\ doc_result = ProcessingResult
    /\ doc_pc = "start"

DocIdle ==
    /\ doc_in = DocInput("process_document", FALSE, ".pdf", FALSE, FALSE, FALSE, EmptyFrame)
    /\ doc_result = ProcessingResult
    /\ doc_pc = "idle"

Failed(message, missing) ==
    [ProcessingResult EXCEPT !.error_message = message, !.missing = missing]

\* DocumentProcessingService.process_document
process_document_result(in) ==
    IF ~in.format_known THEN Failed("Unknown customer format", <<>>)
    ELSE IF in.suffix \notin {".csv", ".pdf"} THEN Failed("Unsupported file format", <<>>)
    ELSE IF in.suffix = ".pdf" /\ ~in.has_rules
    THEN Failed("No extraction rules defined for PDF processing", <<>>)
    ELSE IF IsEmptyFrame(in.table)
    THEN Failed("No table data could be extracted from the document", <<>>)
    ELSE LET df_bc == _map_to_bc_format(in.table)
         IN  IF df_bc.raised THEN Failed("Could not map required columns", df_bc.missing)
             ELSE [ProcessingResult EXCEPT
                     !.success = TRUE,
                     !.processed_df = Lines(df_bc.rows),
                     !.stats = [total_rows |-> Len(df_bc.rows), columns |-> 5]]

process_document ==
    /\ doc_pc = "start"
    /\ doc_in.entry = "process_document"
    /\ doc_result' = process_document_result(doc_in)
    /\ doc_pc' = "returned"
    /\ UNCHANGED doc_in
    /\ UNCHANGED exceptDoc

\* PurchaseOrderService.process_file; the lines are kept in processed_df
process_file ==
    /\ doc_pc = "start"
    /\ doc_in.entry = "process_file"
    /\ doc_result' =
         IF ~doc_in.format_known THEN Failed("Unknown customer format", <<>>)
         ELSE IF ~doc_in.full_text THEN Failed("No text could be extracted from PDF", <<>>)
         ELSE LET df == doc_in.table
                  lines == map_table_to_lines(df)
              IN  [ProcessingResult EXCEPT
                     !.success = TRUE,
                     !.processed_df = Lines(lines),
                     !.stats = [total_lines |-> Len(lines),
                                table_rows_extracted |-> Len(df.rows),
                                columns_found |-> IF IsEmptyFrame(df) THEN 0 ELSE Len(df.columns),
                                processing_duration |-> 0]]
    /\ doc_pc' = "returned"
    /\ UNCHANGED doc_in
    /\ UNCHANGED exceptDoc

\* the result object of process_single_file when the validation stage is
\* reached or the call has returned before it; doc is process_document's result
single_file_parsed(in, doc) ==
    IF ~in.file_exists THEN Failed("File not found", <<>>)
    ELSE IF ~doc.success THEN Failed(doc.error_message, doc.missing)
    ELSE [ProcessingResult EXCEPT !.processed_df = doc.processed_df, !.stats = doc.stats]

\* process_single_file up to the validation stage: file check, document
\* parsing and BC mapping (the header fields of a PDF are not modelled)
process_single_file_parse ==
    /\ doc_pc = "start"
    /\ doc_in.entry = "process_single_file"
    /\ doc_result' = single_file_parsed(doc_in, process_document_result(doc_in))
    /\ doc_pc' = IF doc_result'.processed_df.set THEN "validate" ELSE "returned"
    /\ UNCHANGED doc_in
    /\ UNCHANGED exceptDoc

\* PurchaseOrderPipeline._validate_products: builds the validator of the
\* customer's catalog (from_customer_config raises when the format names no
\* catalog) and returns validate_and_transform's partitions and statistics;
\* faulty is the set of lines the validation finds faulty (the faulty
\* partition is kept as those lines, without their Error rows)
_validate_products(processed_df, raises, faulty) ==
    IF raises THEN [raised |-> TRUE, clean_rows |-> <<>>, faulty_rows |-> <<>>, stats |-> NoDict]
    ELSE [raised |-> FALSE,
          clean_rows |-> TakeIndices(processed_df.rows, (1..Len(processed_df.rows)) \ faulty),
          faulty_rows |-> TakeIndices(processed_df.rows, faulty),
          stats |-> [total_rows |-> Len(processed_df.rows),
                     clean_rows |-> Len(processed_df.rows) - Cardinality(faulty),
                     faulty_rows |-> 2 * Cardinality(faulty)]]

\* process_single_file from the validation stage to its return; the
\* "except Exception" handler only sets error_message
process_single_file_validate ==
    /\ doc_pc = "validate"
    /\ \E raises \in BOOLEAN, faulty \in SUBSET (1..Len(doc_result.processed_df.rows)) :
          LET v == _validate_products(doc_result.processed_df, raises, faulty)
          IN  doc_result' =
                IF v.raised THEN [doc_result EXCEPT !.error_message = "Pipeline error"]
                ELSE [doc_result EXCEPT
                        !.clean_df = Lines(v.clean_rows),
                        !.faulty_df = Lines(v.faulty_rows),
                        !.stats = v.stats @@ @,
                        !.success = TRUE]
    /\ doc_pc' = "returned"
    /\ UNCHANGED doc_in
    /\ UNCHANGED exceptDoc

DocNext ==
    process_document \/ process_file \/ process_single_file_parse \/ process_single_file_validate

(***************************************************************************)
(* Customer resolution: CustomerMatchingService.find_customer_by_entity_code *)
(* The repository is the customer table as the lookups see it.             *)
(***************************************************************************)
NoCustomer == "<no customer>"

\* the key "customer_matching_strategies" is absent from the matching rules
NoKey == <<"<no key>">>

StrategyNames == {"exact_match", "company_name_fallback", "manual_mapping", "fuzzy"}

EntityCodes == {"E1", "E2"}

CustomerNumbers == {"C001", "C002"}

\* the matching rules of a format
MatchingRules(strategies, mapping) ==
    [customer_matching_strategies |-> strategies, entity_code_mapping |-> mapping]

\* entity_code_mapping: {} or {"E1": "E2"}
ManualMaps == { <<>>, [c \in {"E1"} |-> "E2"] }

\* customer_repo: find_by_entity_code as a table, and the list
\* search_by_company_patterns returns for the format's patterns
Repositories ==
    [by_code : [EntityCodes -> CustomerNumbers \cup {NoCustomer}],
     by_patterns : {<<>>, <<"C001">>, <<"C002", "C001">>}]

\* matching_rules.get("customer_matching_strategies", ["exact_match"])
ConfiguredStrategies(rules) ==
    IF rules.customer_matching_strategies = NoKey THEN <<"exact_match">>
    ELSE rules.customer_matching_strategies

\* CustomerMatchingService._try_matching_strategy: the customer's number, or
\* NoCustomer for None
_try_matching_strategy(rules, repo, entity_code, strategy) ==
    IF strategy = "exact_match" THEN repo.by_code[entity_code]
    ELSE IF strategy = "company_name_fallback"
    THEN IF Len(repo.by_patterns) >= 1 THEN repo.by_patterns[1] ELSE NoCustomer
    ELSE IF strategy = "manual_mapping"
    THEN IF entity_code \in DOMAIN rules.entity_code_mapping
         THEN repo.by_code[rules.entity_code_mapping[entity_code]]
         ELSE NoCustomer
    ELSE NoCustomer

\* the loop goes on to the next strategy whatever was found
ReturnsCustomer_never(customer) == FALSE

\* "if customer:" inside the strategy loop
ReturnsCustomer(customer) == customer # NoCustomer

CmInit ==
    /\ cm_rules \in { MatchingRules(st, mp) :
                        st \in DistinctSeqs(StrategyNames, MaxStrategies) \cup {NoKey},
                        mp \in ManualMaps }
    /\ cm_repo \in Repositories
    /\ cm_entity_code \in EntityCodes \cup {""}
    /\ cm_i = 0
    /\ cm_tried = <<>>
    /\ cm_result = NoCustomer
    /\ cm_pc = "start"

CmIdle ==
    /\ cm_rules = MatchingRules(<<>>, <<>>)
    /\ cm_repo = [by_code |-> [c \in EntityCodes |-> NoCustomer], by_patterns |-> <<>>]
    /\ cm_entity_code = ""
    /\ cm_i = 0
    /\ cm_tried = <<>>
    /\ cm_result = NoCustomer
    /\ cm_pc = "idle"

\* entry of find_customer_by_entity_code: an empty entity code returns None
\* before any strategy
find_customer_begin ==
    /\ cm_pc = "start"
    /\ IF cm_entity_code = ""
       THEN cm_pc' = "returned" /\ UNCHANGED cm_i
       ELSE cm_pc' = "strategies" /\ cm_i' = 1
    /\ UNCHANGED <<cm_rules, cm_repo, cm_entity_code, cm_tried, cm_result>>
    /\ UNCHANGED exceptCm

\* one iteration of "for strategy in strategies"
try_strategy ==
    /\ cm_pc = "strategies"
    /\ cm_i <= Len(ConfiguredStrategies(cm_rules))
    /\ cm_tried' = Append(cm_tried, ConfiguredStrategies(cm_rules)[cm_i])
    /\ IF ReturnsCustomer(_try_matching_strategy(cm_rules, cm_repo, cm_entity_code,
                                                 ConfiguredStrategies(cm_rules)[cm_i]))
       THEN /\ cm_result' = _try_matching_strategy(cm_rules, cm_repo, cm_entity_code,
                                                   ConfiguredStrategies(cm_rules)[cm_i])
            /\ cm_pc' = "returned"
            /\ UNCHANGED cm_i
       ELSE /\ cm_i' = cm_i + 1
            /\ UNCHANGED <<cm_result, cm_pc>>
    /\ UNCHANGED <<cm_rules, cm_repo, cm_entity_code>>
    /\ UNCHANGED exceptCm

\* the strategies are exhausted: return None
find_customer_exhausted ==
    /\ cm_pc = "strategies"
    /\ cm_i > Len(ConfiguredStrategies(cm_rules))
    /\ cm_pc' = "returned"
    /\ UNCHANGED <<cm_rules, cm_repo, cm_entity_code, cm_i, cm_tried, cm_result>>
    /\ UNCHANGED exceptCm

CmNext == find_customer_begin \/ try_strategy \/ find_customer_exhausted

(***************************************************************************)
(* Batch processing: PurchaseOrderPipeline.process_all_customers           *)
(***************************************************************************)
\* one entry of formats_config and what lies under its PO folder:
\*   "usable"     a configuration with po_folder_name, known to FORMATS
\*   "unknown"    a configuration with po_folder_name the document service
\*                has no format for
\*   "empty"      a configuration that is None or {}
\*   "no_folder"  a configuration without po_folder_name
FormatEntry(config, dir_exists, files) ==
    [config |-> config, dir_exists |-> dir_exists, files |-> files]

FormatEntries ==
    { FormatEntry("usable", TRUE, n) : n \in 0..MaxFiles } \cup
    { FormatEntry("usable", FALSE, 0),
      FormatEntry("unknown", TRUE, 1),
      FormatEntry("empty", FALSE, 0),
      FormatEntry("no_folder", TRUE, 1) }

\* discover_files raises ValueError
DiscoverRaises(entry) == entry.config \in {"empty", "no_folder"}

\* discover_files: the number of PO files found
discover_files(entry) == IF entry.dir_exists THEN entry.files ELSE 0

\* the outcomes process_single_file can have for the files of an entry: it
\* never raises, and fails every file of a format the document service does
\* not know
FileOutcomes(entry) ==
    IF DiscoverRaises(entry) THEN {<<>>}
    ELSE IF entry.config = "unknown" THEN {[i \in 1..discover_files(entry) |-> FALSE]}
    ELSE [1..discover_files(entry) -> BOOLEAN]

\* the dict process_all_customers has not returned
NoResults == <<"<not returned>">>

BtInit ==
    /\ formats_config \in SeqsUpTo(FormatEntries, MaxFormats)
    /\ bt_i = 0
    /\ bt_partial = <<>>
    /\ self_results = <<>>
    /\ all_results = NoResults
    /\ bt_pc = "start"

BtIdle ==
    /\ formats_config = <<>>
    /\ bt_i = 0
    /\ bt_partial = <<>>
    /\ self_results = <<>>
    /\ all_results = NoResults
    /\ bt_pc = "idle"

\* process_all_customers starts the comprehension over formats_config.keys()
process_all_customers_begin ==
    /\ bt_pc = "start"
    /\ bt_pc' = "customers"
    /\ bt_i' = 1
    /\ UNCHANGED <<formats_config, bt_partial, self_results, all_results>>
    /\ UNCHANGED exceptBt

\* process_customer_files for the next key: a ValueError of discover_files
\* leaves process_customer_files and process_all_customers
process_customer_files ==
    /\ bt_pc = "customers"
    /\ bt_i <= Len(formats_config)
    /\ \E outcomes \in FileOutcomes(formats_config[bt_i]) :
          IF DiscoverRaises(formats_config[bt_i])
          THEN /\ bt_pc' = "raised"
               /\ UNCHANGED <<bt_i, bt_partial, self_results>>
          ELSE /\ bt_partial' = Append(bt_partial, outcomes)
               /\ self_results' = self_results \o [i \in 1..Len(outcomes) |->
                                                     [customer |-> bt_i, success |-> outcomes[i]]]
               /\ bt_i' = bt_i + 1
               /\ UNCHANGED bt_pc
    /\ UNCHANGED <<formats_config, all_results>>
    /\ UNCHANGED exceptBt

\* every key was processed: the dict is returned
process_all_customers_return ==
    /\ bt_pc = "customers"
    /\ bt_i > Len(formats_config)
    /\ all_results' = bt_partial
    /\ bt_pc' = "returned"
    /\ UNCHANGED <<formats_config, bt_i, bt_partial, self_results>>
    /\ UNCHANGED exceptBt

BtNext == process_all_customers_begin \/ process_customer_files \/ process_all_customers_return

(***************************************************************************)
(* Persisting a result: DatabaseIntegration.save_result inside             *)
(* DatabaseService.get_session                                             *)
(***************************************************************************)
\* POLine values of a result
SaveLines ==
    { [sku |-> <<"1">>, quantity |-> 2], [sku |-> S_sentinel, quantity |-> 1] }

\* a POProcessingResult as save_result reads it: success, whether header is
\* set, lines, and whether validation_stats holds "processing_duration"
SaveInput(success, has_header, lines, has_duration) ==
    [success |-> success, has_header |-> has_header, lines |-> lines, has_duration |-> has_duration]

\* the rows of purchase_order and purchase_order_line that belong to the result
Stored(header, lines) == [header |-> header, lines |-> lines]

NothingStored == Stored(FALSE, <<>>)

\* the dict save_result returns
NotReturned == "<not returned>"

SvInit ==
    /\ sv_result \in
          { SaveInput(TRUE, h, ls, d) :
              h \in BOOLEAN, ls \in SeqsUpTo(SaveLines, MaxSaveLines), d \in BOOLEAN }
          \cup { SaveInput(FALSE, FALSE, <<>>, FALSE) }
    /\ sv_i = 0
    /\ db_pending = NothingStored
    /\ db_committed = NothingStored
    /\ sv_saved = NotReturned
    /\ sv_pc = "start"

SvIdle ==
    /\ sv_result = SaveInput(FALSE, FALSE, <<>>, FALSE)
    /\ sv_i = 0
    /\ db_pending = NothingStored
    /\ db_committed = NothingStored
    /\ sv_saved = NotReturned
    /\ sv_pc = "idle"

\* "if not result.success: return {saved: False}", else the session is opened
save_result_begin ==
    /\ sv_pc = "start"
    /\ IF ~sv_result.success
       THEN sv_saved' = "False" /\ sv_pc' = "returned"
       ELSE sv_pc' = "header" /\ UNCHANGED sv_saved
    /\ UNCHANGED <<sv_result, sv_i, db_pending, db_committed>>
    /\ UNCHANGED exceptSv

\* PurchaseOrder(...), session.add(po), session.flush(): raises when
\* result.header is None, or when the database rejects the row
save_header ==
    /\ sv_pc = "header"
    /\ \E rejected \in BOOLEAN :
          IF ~sv_result.has_header \/ rejected
          THEN /\ sv_pc' = "except"
               /\ UNCHANGED <<sv_i, db_pending>>
          ELSE /\ db_pending' = [db_pending EXCEPT !.header = TRUE]
               /\ sv_i' = 1
               /\ sv_pc' = "lines"
    /\ UNCHANGED <<sv_result, db_committed, sv_saved>>
    /\ UNCHANGED exceptSv

\* one iteration of "for line in result.lines": session.add(po_line)
save_line ==
    /\ sv_pc = "lines"
    /\ sv_i <= Len(sv_result.lines)
    /\ \E raised \in BOOLEAN :
          IF raised
          THEN /\ sv_pc' = "except"
               /\ UNCHANGED <<sv_i, db_pending>>
          ELSE /\ db_pending' = [db_pending EXCEPT !.lines = Append(@, sv_result.lines[sv_i])]
               /\ sv_i' = sv_i + 1
               /\ UNCHANGED sv_pc
    /\ UNCHANGED <<sv_result, db_committed, sv_saved>>
    /\ UNCHANGED exceptSv

\* session.commit() after the loop: the pending rows become durable, or the
\* database refuses the transaction
save_commit ==
    /\ sv_pc = "lines"
    /\ sv_i > Len(sv_result.lines)
    /\ \E refused \in BOOLEAN :
          IF refused
          THEN /\ sv_pc' = "except"
               /\ UNCHANGED <<db_pending, db_committed>>
          ELSE /\ db_committed' = db_pending
               /\ db_pending' = NothingStored
               /\ sv_pc' = "log"
    /\ UNCHANGED <<sv_result, sv_i, sv_saved>>
    /\ UNCHANGED exceptSv

\* logger.info(f"... {po.po_number} in {po.processing_duration:.3f}s ...") and
\* the return of {saved: True}: reading the attributes of po after the commit
\* reloads the row, which the database can refuse, and the format raises
\* TypeError when processing_duration is None; on return get_session commits
\* again, with nothing pending
save_log_and_return ==
    /\ sv_pc = "log"
    /\ \E reload_refused \in BOOLEAN :
          IF ~sv_result.has_duration \/ reload_refused
          THEN sv_pc' = "except" /\ UNCHANGED sv_saved
          ELSE sv_pc' = "returned" /\ sv_saved' = "True"
    /\ UNCHANGED <<sv_result, sv_i, db_pending, db_committed>>
    /\ UNCHANGED exceptSv

\* get_session's "except: session.rollback(); raise", then save_result's
\* "except Exception: return {saved: False}"
save_except ==
    /\ sv_pc = "except"
    /\ db_pending' = NothingStored
    /\ sv_saved' = "False"
    /\ sv_pc' = "returned"
    /\ UNCHANGED <<sv_result, sv_i, db_committed>>
    /\ UNCHANGED exceptSv

SvNext ==
    \/ save_result_begin
    \/ save_header
    \/ save_line
    \/ save_commit
    \/ save_log_and_return
    \/ save_except

(***************************************************************************)
(* Specifications                                                          *)
(***************************************************************************)
InitValidate == ValInit /\ RxIdle /\ SkuIdle /\ AsgIdle /\ ExtIdle /\ DocIdle /\ CmIdle /\ BtIdle /\ SvIdle

SpecValidate == InitValidate /\ [][ValNext]_vars

InitRedux == ValIdle /\ RxInit /\ SkuIdle /\ AsgIdle /\ ExtIdle /\ DocIdle /\ CmIdle /\ BtIdle /\ SvIdle

SpecRedux == InitRedux /\ [][RxNext]_vars

InitSku == ValIdle /\ RxIdle /\ SkuInit /\ AsgIdle /\ ExtIdle /\ DocIdle /\ CmIdle /\ BtIdle /\ SvIdle

SpecSku == InitSku /\ [][SkuNext]_vars

InitAssign == ValIdle /\ RxIdle /\ SkuIdle /\ AsgInit /\ ExtIdle /\ DocIdle /\ CmIdle /\ BtIdle /\ SvIdle

SpecAssign == InitAssign /\ [][AsgNext]_vars

InitExtract == ValIdle /\ RxIdle /\ SkuIdle /\ AsgIdle /\ ExtInit /\ DocIdle /\ CmIdle /\ BtIdle /\ SvIdle

SpecExtract == InitExtract /\ [][ExtNext]_vars

InitProcess == ValIdle /\ RxIdle /\ SkuIdle /\ AsgIdle /\ ExtIdle /\ DocInit /\ CmIdle /\ BtIdle /\ SvIdle

SpecProcess == InitProcess /\ [][DocNext]_vars

InitResolve == ValIdle /\ RxIdle /\ SkuIdle /\ AsgIdle /\ ExtIdle /\ DocIdle /\ CmInit /\ BtIdle /\ SvIdle

SpecResolve == InitResolve /\ [][CmNext]_vars

InitBatch == ValIdle /\ RxIdle /\ SkuIdle /\ AsgIdle /\ ExtIdle /\ DocIdle /\ CmIdle /\ BtInit /\ SvIdle

SpecBatch == InitBatch /\ [][BtNext]_vars

InitSave == ValIdle /\ RxIdle /\ SkuIdle /\ AsgIdle /\ ExtIdle /\ DocIdle /\ CmIdle /\ BtIdle /\ SvInit

SpecSave == InitSave /\ [][SvNext]_vars

(***************************************************************************)
(* Properties of validate_and_transform                                    *)
(***************************************************************************)
Processed == 1..Len(results)

IsFaulty(i) == results[i].result.type = "faulty"

FaultyLines == {i \in Processed : IsFaulty(i)}

CleanLines == {i \in Processed : ~IsFaulty(i)}

FaultyBefore(i) == Cardinality({j \in FaultyLines : j < i})

CleanBefore(i) == Cardinality({j \in CleanLines : j < i})

\* the issue the handlers flag for line i
FlaggedFaulty(i) ==
    \/ results[i].result.issues.carton_unit = 1
    \/ results[i].result.issues.sku_inferred = 1
    \/ results[i].result.issues.unauthorized_product = 1

\* C1 as stated: when validate_and_transform returns, the reported clean count
\* plus the reported faulty count equals the reported total of input lines.
C1_CleanPlusFaultyIsTotal ==
    v_pc = "done" => stats.clean_rows + stats.faulty_rows = stats.total_rows

\* C1 amended: faulty_rows counts the rows of the faulty partition, two per
\* faulty line, so clean_rows + faulty_rows = total_rows + (number of faulty
\* lines), i.e. clean_rows + faulty_rows / 2 = total_rows.
C1_CountsSumWithFaultyPairs ==
    v_pc = "done" =>
        /\ stats.total_rows = Len(df_to_validate)
        /\ stats.clean_rows = Cardinality(CleanLines)
        /\ stats.faulty_rows = 2 * Cardinality(FaultyLines)
        /\ stats.clean_rows + stats.faulty_rows = stats.total_rows + Cardinality(FaultyLines)

C1_Witness ==
    /\ v_pc = "done"
    /\ stats.total_rows = 2
    /\ stats.clean_rows = 1
    /\ stats.faulty_rows = 2

\* C2: each line classified faulty (carton unit, inferred SKU, unauthorized)
\* puts exactly two consecutive rows into the faulty partition, the Error row
\* first and then the line itself (as normalized; for an inferred SKU the copy
\* carrying the catalog SKU and description), and nothing into the clean
\* partition; a clean line puts one row into the clean partition and nothing
\* into the faulty one.
C2_FaultyLinesYieldErrorThenOriginal ==
    /\ Len(faulty_rows_list) = 2 * Cardinality(FaultyLines)
    /\ Len(clean_rows_list) = Cardinality(CleanLines)
    /\ \A i \in Processed :
          /\ IsFaulty(i) <=> FlaggedFaulty(i)
          /\ IsFaulty(i) =>
                LET first == faulty_rows_list[2 * FaultyBefore(i) + 1]
                    second == faulty_rows_list[2 * FaultyBefore(i) + 2]
                IN /\ first.type = "Error"
                   /\ second.type = "Article"
                   /\ IF results[i].result.issues.sku_inferred = 1
                      THEN /\ second.sku = mercuriale_df[results[i].best].sku
                           /\ second.description = mercuriale_df[results[i].best].description
                      ELSE second = OutputColumns(df_processed[i])
          /\ ~IsFaulty(i) =>
                /\ clean_rows_list[CleanBefore(i) + 1].type = "Article"
                /\ clean_rows_list[CleanBefore(i) + 1].sku = df_processed[i].sku

C2_Witness ==
    /\ v_pc = "done"
    /\ Len(results) = 2
    /\ results[1].result.issues.carton_unit = 1
    /\ results[2].result.issues.sku_inferred = 1
    /\ Len(faulty_rows_list) = 4

\* line i gets as far as the SKU-missing branch: it is not carton-flagged and
\* the sentinel is no catalog SKU
ReachesMissingSku(i) ==
    /\ df_processed[i].sku = S_sentinel
    /\ ~(has_unit /\ _is_carton_unit(df_processed[i].unit))
    /\ MercurialeMatch(S_sentinel) = <<>>

\* the row of line i that is not the Error row
KeptRow(i) == results[i].result.rows[Len(results[i].result.rows)]

IsRoundOf(k, q, c) ==
    LET num == IF c.n > 0 THEN q * c.d ELSE 0 - q * c.d
        den == IF c.n > 0 THEN c.n ELSE 0 - c.n
        off == IF k * den >= num THEN k * den - num ELSE num - k * den
    IN /\ 2 * off <= den
       /\ 2 * off = den => k % 2 = 0

\* C9: a stored coefficient that is absent (NULL) or 1 leaves the quantity as
\* it was and counts no quantity correction; any other non-zero coefficient c
\* turns the quantity q into max(1, round(q / c)).
C9_ReduxQuantity ==
    rx_pc = "done" =>
        /\ (rx_coef = CoefNull \/ (rx_coef.d # 0 /\ rx_coef.n = rx_coef.d)) =>
              /\ rx_out.row.quantity = rx_q
              /\ rx_out.issues.quantity_corrected = 0
        /\ (rx_coef # CoefNull /\ rx_coef.n # 0 /\ rx_coef.n # rx_coef.d) =>
              \E k \in (0 - 2 * MaxQty - 1)..(2 * MaxQty + 1) :
                 /\ IsRoundOf(k, rx_q, rx_coef)
                 /\ rx_out.row.quantity = Max(1, k)

C9_Witness ==
    /\ rx_pc = "done"
    /\ rx_coef = Coef(4, 1)
    /\ rx_q = 1
    /\ rx_out.row.quantity = 1
    /\ rx_out.issues.quantity_corrected = 1

(***************************************************************************)
(* Properties of SKU normalization                                         *)
(***************************************************************************)
\* C10: normalizing a normalized SKU changes nothing, and each of "", "nan",
\* "None", "NaN" and a null cell normalizes to "000000", in every implementation.
C10_SkuNormalizationIdempotentWithSentinel ==
    /\ sku_pc = "twice" => sku_twice = sku_once
    /\ (sku_pc \in {"once", "twice"} /\ sku_in \in {S_empty, S_nan, S_None, S_NaN, Null}) =>
          sku_once = S_sentinel

(***************************************************************************)
(* Assignment pass                                                         *)
(***************************************************************************)
\* entry j of customer c's evaluation log is a matched required condition
MatchedRequired(c, j) ==
    evaluated[c][j].match /\ conditions[evaluated[c][j].cond].required

\* condition j, were it evaluated, would match customer c
WouldMatch(c, j) ==
    /\ GetField(customers[c], conditions[j].field) # Null
    /\ ConditionMatches(asg_impl, customers[c], conditions[j])

\* customer c has been taken through its conditions and its default step
Finished(c) == asg_pc \in {"commit", "done"} \/ (asg_pc \in {"conditions", "default"} /\ c < cust_i)

\* C3: in both assignment passes, once a required condition has matched a
\* customer, no later condition in priority order is visited for that
\* customer: a matched required condition is the last entry of the
\* customer's evaluation log, and the log follows the priority order.
C3_RequiredMatchStopsEvaluation ==
    \A c \in 1..Len(evaluated) :
        /\ \A j \in 1..Len(evaluated[c]) : evaluated[c][j].cond = j
        /\ \A j \in 1..Len(evaluated[c]) : MatchedRequired(c, j) => j = Len(evaluated[c])
        /\ Finished(c) /\ (\A j \in 1..Len(evaluated[c]) : ~MatchedRequired(c, j))
              => Len(evaluated[c]) = Len(conditions)

C3_Witness ==
    /\ asg_pc = "done"
    /\ \E c \in 1..Len(evaluated) :
          /\ evaluated[c] # <<>>
          /\ MatchedRequired(c, Len(evaluated[c]))
          /\ Len(evaluated[c]) < Len(conditions)
          /\ WouldMatch(c, Len(conditions))

\* C4 as stated: a customer that a required condition matched ends the pass
\* bound to that condition's target catalog.
C4_RequiredMatchBindsTarget ==
    asg_pc = "done" =>
        \A c \in 1..Len(evaluated) : \A j \in 1..Len(evaluated[c]) :
            MatchedRequired(c, j) => customers[c].mercuriale = conditions[j].mercuriale_name

\* C4 amended: a customer that a required condition matched ends the pass
\* bound to that condition's target catalog when that catalog exists; when
\* it does not exist the condition binds nothing (the customer keeps what an
\* earlier matching condition, the default step or the previous pass gave).
C4_RequiredMatchBindsExistingTarget ==
    \A c \in 1..Len(evaluated) : \A j \in 1..Len(evaluated[c]) :
        (Finished(c) /\ MatchedRequired(c, j)) =>
            IF conditions[j].mercuriale_name \in mercuriales
            THEN customers[c].mercuriale = conditions[j].mercuriale_name
            ELSE customers[c].mercuriale # conditions[j].mercuriale_name

C4_Witness ==
    /\ asg_pc = "done"
    /\ Len(conditions) = 2
    /\ \E c \in 1..Len(evaluated) :
          /\ Len(evaluated[c]) = 1
          /\ MatchedRequired(c, 1)
          /\ conditions[1].mercuriale_name \in mercuriales
          /\ WouldMatch(c, 2)
          /\ conditions[2].mercuriale_name \in mercuriales
          /\ conditions[2].mercuriale_name # conditions[1].mercuriale_name
          /\ customers[c].mercuriale = conditions[1].mercuriale_name

(***************************************************************************)
(* Table extraction                                                        *)
(***************************************************************************)
\* C5: footer detection is terminal: once a footer row has been detected
\* (footer_at records how many data rows had been emitted by then), no
\* further row of the document is emitted as a data row.
C5_FooterIsTerminal == footer_at # -1 => Len(all_rows) = footer_at

(***************************************************************************)
(* Document processing                                                     *)
(***************************************************************************)
NoLineData(r) == ~r.processed_df.set /\ ~r.clean_df.set /\ ~r.faulty_df.set

\* C7: every processed document yields success=true with non-empty
\* statistics, or success=false with an error message and no line data
\* (no processed, clean or faulty lines).
C7_ResultHasOneOfTwoShapes ==
    doc_pc = "returned" =>
        \/ doc_result.success /\ DOMAIN doc_result.stats # {}
        \/ ~doc_result.success /\ doc_result.error_message # NoError /\ NoLineData(doc_result)

\* a required canonical column has no header of the table within the
\* similarity threshold of any of its candidate names
Unbound(c, table) ==
    \A i \in 1..Len(table.columns) : \A n \in 1..Len(column_mapping[c]) :
        ~RatioAtLeast(table.columns[i], column_mapping[c][n], ColumnThreshold)

\* the run reached column mapping of a table that has rows
ReachesMapping ==
    /\ doc_in.format_known /\ doc_in.file_exists /\ doc_in.full_text
    /\ doc_in.suffix \in {".pdf", ".csv"}
    /\ doc_in.suffix = ".pdf" => doc_in.has_rules
    /\ ~IsEmptyFrame(doc_in.table)

\* C8: when a required canonical column (SKU, Description, Quantity) cannot
\* be bound to a header of the table, the document fails with an error
\* naming the missing columns; it is never reported successful.
C8_MissingRequiredColumnFails ==
    (doc_pc = "returned" /\ ReachesMapping
        /\ \E k \in 1..3 : Unbound(RequiredColumns[k], doc_in.table))
    => /\ ~doc_result.success
       /\ doc_result.error_message = "Could not map required columns"
       /\ doc_result.missing =
             SelectSeq2(RequiredColumns, {c \in {"SKU", "DESCRIPTION", "QUANTITY"} : Unbound(c, doc_in.table)})

(***************************************************************************)
(* SKU padding and catalog lookup                                          *)
(***************************************************************************)
\* the extracted SKU of line i is numeric with fewer than six digits
ShortNumericSku(i) ==
    /\ df_to_validate[i].sku # <<>>
    /\ AllDigits(df_to_validate[i].sku)
    /\ Len(df_to_validate[i].sku) < 6

\* line i carries a carton unit
CartonLine(i) == has_unit /\ _is_carton_unit(df_to_validate[i].unit)

\* C11: a numeric SKU of fewer than six digits is left-zero-padded to six
\* digits before the catalog lookup; when the catalog holds the padded SKU
\* the line is never reported unauthorized and, unless it carries a carton
\* unit, is validated against that entry (clean, with the entry's SKU and
\* official description).
C11_ShortNumericSkuIsPaddedAndMatched ==
    \A i \in Processed :
        ShortNumericSku(i) =>
            LET padded == ZFill(df_to_validate[i].sku, 6)
                entries == MercurialeMatch(padded)
            IN  /\ df_processed[i].sku = padded
                /\ Len(padded) = 6
                /\ entries # <<>> =>
                     /\ results[i].result.issues.unauthorized_product = 0
                     /\ ~CartonLine(i) =>
                          /\ results[i].result.type = "clean"
                          /\ results[i].result.rows[1].sku = padded
                          /\ Strip(results[i].result.rows[1].description) = Strip(entries[1].description)

C11_Witness ==
    \E i \in Processed :
        /\ ShortNumericSku(i)
        /\ Len(df_to_validate[i].sku) = 1
        /\ MercurialeMatch(ZFill(df_to_validate[i].sku, 6)) # <<>>
        /\ ~CartonLine(i)
        /\ results[i].result.type = "clean"

(***************************************************************************)
(* Properties of the quantity normalization                                *)
(***************************************************************************)
\* q is the first numeric token of value, "," read as ".", rounded to the
\* nearest integer, or 0 when value holds no numeric token; a tie above an
\* odd integer goes up under half-up and half-even alike ("3,5" becomes 4),
\* a tie above an even integer may go either way
IsNormalizedQuantity(q, value) ==
    LET tok == FirstNumericToken(CommaToDot(value))
        n == ParseNat(tok.int)
        f == tok.frac
        restZero == \A k \in 2..Len(f) : f[k] = "0"
    IN  IF ~tok.found THEN q = 0
        ELSE IF f = <<>> \/ DigitVal(f[1]) < 5 THEN q = n
        ELSE IF DigitVal(f[1]) > 5 \/ ~restZero THEN q = n + 1
        ELSE IF n % 2 = 1 THEN q = n + 1
        ELSE q \in {n, n + 1}

\* the lines a returned parse holds
ParsedLines ==
    IF doc_pc = "returned" /\ doc_result.processed_df.set
    THEN doc_result.processed_df.rows ELSE <<>>

\* the extracted rows a parsed line can come from: the quantity is the third
\* cell of every table whose header names a quantity column
SourceRows(line) ==
    {i \in 1..Len(doc_in.table.rows) :
        Strip(doc_in.table.rows[i][2]) = Strip(line.description)}

\* C12: every parsed line carries a non-negative integer quantity that is the
\* first numeric token of its quantity cell, "," read as ".", rounded to the
\* nearest integer ("3,5" becomes 4), and a row whose quantity cell holds no
\* numeric token gets 0 and is dropped, in DocumentProcessingService and in
\* DataMapper alike
C12_QuantityIsRoundedFirstToken ==
    /\ \A k \in 1..Len(ParsedLines) :
          /\ ParsedLines[k].quantity \in Nat
          /\ \E i \in SourceRows(ParsedLines[k]) :
                IsNormalizedQuantity(ParsedLines[k].quantity, doc_in.table.rows[i][3])
    /\ ParsedLines # <<>> =>
          \A i \in 1..Len(doc_in.table.rows) :
              ~FirstNumericToken(CommaToDot(doc_in.table.rows[i][3])).found =>
                  \A k \in 1..Len(ParsedLines) : i \notin SourceRows(ParsedLines[k])

\* the same statement for DocumentProcessingService alone
C12_DocumentProcessingQuantity ==
    doc_in.entry # "process_file" => C12_QuantityIsRoundedFirstToken

(***************************************************************************)
(* Properties of the min_columns filter                                    *)
(***************************************************************************)
\* the cells of an extracted row that are neither None nor ''
FilledCells(row) == {j \in 1..Len(row.cells) : Truthy(row.cells[j])}

\* the extracted rows that give the emitted row once their cells are stripped
SourcesOf(emitted) == {row \in RowPool : row.cells # <<>> /\ CleanCells(row) = emitted}

IssueKinds ==
    {"unauthorized_product", "description_corrected", "quantity_corrected", "sku_inferred",
     "carton_unit"}

\* the processed lines for which _process_row reported the issue
LinesWithIssue(kind) == {i \in Processed : results[i].result.issues[kind] > 0}

\* C14: each counter of stats["issues_found"] equals the number of lines
\* processed so far for which that issue occurred
C14_IssueCountersAreCounts ==
    \A kind \in IssueKinds : stats.issues_found[kind] = Cardinality(LinesWithIssue(kind))

(***************************************************************************)
(* Properties of validation against an empty catalog                       *)
(***************************************************************************)
\* the Error row of line i reports an unauthorized product
ReportsUnauthorized(i) ==
    /\ IsFaulty(i)
    /\ results[i].result.rows[1].type = "Error"
    /\ results[i].result.rows[1].description = MsgUnauthorized
    /\ results[i].result.issues.unauthorized_product = 1

\* C15 as stated: with an empty catalog no line is clean and the Error row of
\* every line reports an unauthorized product
C15_EmptyCatalogAllUnauthorized ==
    mercuriale_df = <<>> => \A i \in Processed : ReportsUnauthorized(i)

\* C15: with an empty catalog no line is clean: every line gets an Error row
\* followed by the line itself; the Error row reports a carton unit when the
\* line's unit is a carton unit and an unauthorized product otherwise
C15_EmptyCatalogNoCleanLine ==
    mercuriale_df = <<>> =>
        /\ clean_rows_list = <<>>
        /\ stats.clean_rows = 0
        /\ \A i \in Processed :
              /\ IsFaulty(i)
              /\ Len(results[i].result.rows) = 2
              /\ results[i].result.rows[1].type = "Error"
              /\ results[i].result.rows[2].type = "Article"
              /\ IF CartonLine(i)
                 THEN /\ results[i].result.rows[1].description = MsgCarton
                      /\ results[i].result.issues.unauthorized_product = 0
                 ELSE ReportsUnauthorized(i)

\* an empty catalog, a carton line, a line without SKU and a line with one
C15_Witness ==
    /\ mercuriale_df = <<>>
    /\ v_pc = "done"
    /\ \E i \in Processed : CartonLine(i)
    /\ \E i \in Processed : ~CartonLine(i) /\ df_processed[i].sku = S_sentinel /\ ReportsUnauthorized(i)

\* an empty catalog and a line with a numeric SKU
C15_WitnessSku ==
    /\ mercuriale_df = <<>>
    /\ \E i \in Processed : ~CartonLine(i) /\ df_processed[i].sku # S_sentinel /\ ReportsUnauthorized(i)

(***************************************************************************)
(* Properties of the default assignment                                    *)
(***************************************************************************)
\* no condition of the table matches customer c
NoConditionMatches(c) == \A j \in 1..Len(conditions) : ~WouldMatch(c, j)

\* the binding customer c had before the pass
InitialBinding(c) ==
    (CHOOSE p \in CustomerPool : p.customer_number = customers[c].customer_number).mercuriale

\* customer c ends with the default catalog when it exists and with the
\* binding it came with when it does not
DefaultedOrUntouched(c) ==
    IF DefaultMercuriale \in mercuriales
    THEN customers[c].mercuriale = DefaultMercuriale
    ELSE customers[c].mercuriale = InitialBinding(c)

\* C16: when the pass is over, a customer that no assignment condition
\* matches is bound to the default catalog if that catalog exists and is left
\* as it was if it does not; the pass reaches its end in both cases
C16_UnmatchedCustomerGetsDefault ==
    asg_pc = "done" => \A c \in 1..Len(customers) : NoConditionMatches(c) => DefaultedOrUntouched(c)

\* the same statement for the passes that do not return before the customer
\* loop: CustomerAssignmentImporter, and AssignmentImporter run with at least
\* one condition
C16_UnmatchedCustomerGetsDefaultAfterLoop ==
    (asg_impl = "CustomerAssignmentImporter" \/ conditions # <<>>) => C16_UnmatchedCustomerGetsDefault

(***************************************************************************)
(* Properties of the non-required conditions                               *)
(***************************************************************************)
\* the conditions that match customer c, by position in priority order
MatchingConditions(c) == {j \in 1..Len(conditions) : WouldMatch(c, j)}

\* no required condition matches customer c, and some condition does
OnlyNonRequiredMatch(c) ==
    /\ MatchingConditions(c) # {}
    /\ \A j \in MatchingConditions(c) : ~conditions[j].required

LastOf(S) == CHOOSE j \in S : \A k \in S : k <= j

\* the matching conditions whose target catalog exists
BindingConditions(c) == {j \in MatchingConditions(c) : conditions[j].mercuriale_name \in mercuriales}

\* the conditions are held and visited in ascending priority order
VisitedInPriorityOrder ==
    /\ \A i, j \in 1..Len(conditions) : i < j => conditions[i].priority <= conditions[j].priority
    /\ \A c \in 1..Len(evaluated) : \A j \in 1..Len(evaluated[c]) : evaluated[c][j].cond = j

Succeeding ==
    {k \in 1..Len(ConfiguredStrategies(cm_rules)) :
        _try_matching_strategy(cm_rules, cm_repo, cm_entity_code,
                               ConfiguredStrategies(cm_rules)[k]) # NoCustomer}

FirstOf(S) == CHOOSE k \in S : \A j \in S : k <= j

C18_WitnessAllFail ==
    /\ cm_pc = "returned"
    /\ Len(cm_tried) = 3
    /\ cm_result = NoCustomer

(***************************************************************************)
(* Properties of the batch                                                 *)
(***************************************************************************)
\* the formats of the batch whose configuration discover_files accepts
AcceptedFormats == {k \in 1..Len(formats_config) : ~DiscoverRaises(formats_config[k])}

\* the results self.results holds for format k
ResultsOf(k) == SelectSeq(self_results, LAMBDA r : r.customer = k)

BatchOver == bt_pc \in {"returned", "raised"}

\* C19: the batch does not raise, and when it is over every format with an
\* acceptable configuration has one result per file of its folder, whatever
\* the configurations of the other formats are
C19_BadFormatFailsAlone ==
    /\ bt_pc # "raised"
    /\ BatchOver =>
          \A k \in AcceptedFormats : Len(ResultsOf(k)) = discover_files(formats_config[k])

\* the batch without a configuration discover_files rejects
C19_BatchOfAcceptedFormats ==
    (AcceptedFormats = 1..Len(formats_config)) => C19_BadFormatFailsAlone

(***************************************************************************)
(* Properties of save_result                                               *)
(***************************************************************************)
\* the header and every line of the result
StoredInFull == Stored(TRUE, sv_result.lines)

\* C20: after save_result returns, the header and all lines of the result
\* are stored when the save is reported, and nothing of the result is stored
\* when it failed or when the result has success=false
C20_SavedInFullOrNothingOnFailure ==
    sv_pc = "returned" =>
        /\ db_pending = NothingStored
        /\ IF sv_saved = "True" THEN db_committed = StoredInFull
           ELSE db_committed = NothingStored

\* no partial write: once save_result has returned, the database holds the
\* header with all the lines or nothing of the result, and nothing for a
\* result with success=false
C20_NoPartialWrite ==
    /\ db_committed \in {NothingStored, StoredInFull}
    /\ sv_pc = "returned" =>
          /\ db_pending = NothingStored
          /\ ~sv_result.success => db_committed = NothingStored
          /\ sv_saved = "True" => db_committed = StoredInFull

(***************************************************************************)
(* Properties of an accepted SKU inference                                 *)
(***************************************************************************)
\* line i had its SKU inferred from its description
Inferred(i) == results[i].result.issues.sku_inferred = 1

\* the catalog entry the inference of line i picked
InferredEntry(i) == mercuriale_df[results[i].best]

\* C21: a line whose SKU was inferred from its description is never placed in
\* the clean partition: it puts into the faulty partition the Error row that
\* notes the similarity, then the corrected row carrying the catalog SKU, the
\* official description and the quantity after the reduction coefficient of
\* that SKU; the clean partition holds one row per clean line only
C21_InferredLineIsFaulty ==
    /\ Len(clean_rows_list) = Cardinality(CleanLines)
    /\ \A i \in Processed :
          Inferred(i) =>
             /\ IsFaulty(i)
             /\ LET first == faulty_rows_list[2 * FaultyBefore(i) + 1]
                    second == faulty_rows_list[2 * FaultyBefore(i) + 2]
                    coef == MercurialeMatch(InferredEntry(i).sku)[1].redux_coefficient
                IN  /\ first.type = "Error"
                    /\ first.description = MsgInferred(results[i].top)
                    /\ second.type = "Article"
                    /\ second.sku = InferredEntry(i).sku
                    /\ second.description = InferredEntry(i).description
                    /\ second.quantity =
                         IF coef = CoefNull \/ coef.n = 0 \/ coef.n = coef.d
                         THEN df_processed[i].quantity
                         ELSE Max(1, RoundQuotient(df_processed[i].quantity, coef))

\* an inference was accepted and the reduction coefficient changed the quantity
C21_Witness ==
    \E i \in Processed :
        /\ Inferred(i)
        /\ IsFaulty(i)
        /\ faulty_rows_list[2 * FaultyBefore(i) + 2].quantity # df_processed[i].quantity

(***************************************************************************)
(* Properties of the order of the partitions                               *)
(***************************************************************************)
\* the rows the first n lines put into the partition of the given type, line
\* after line in input order
RECURSIVE RowsInLineOrder(_, _)
RowsInLineOrder(type, n) ==
    IF n = 0 THEN <<>>
    ELSE RowsInLineOrder(type, n - 1) \o
         (IF results[n].result.type = type THEN results[n].result.rows ELSE <<>>)

\* C22: each partition preserves the order of the input lines: it is the
\* rows of its lines, line after line in input order, so every row of a line
\* comes before every row of a later line landing in the same partition
C22_PartitionsKeepLineOrder ==
    /\ clean_rows_list = RowsInLineOrder("clean", Len(results))
    /\ faulty_rows_list = RowsInLineOrder("faulty", Len(results))

\* two different lines landed in the faulty partition
C22_Witness ==
    /\ v_pc = "done"
    /\ Len(results) = 2
    /\ IsFaulty(1) /\ IsFaulty(2)
    /\ results[1].result.rows[2] # results[2].result.rows[2]
    /\ Len(faulty_rows_list) = 4

\* two different lines landed in the clean partition
C22_WitnessClean ==
    /\ v_pc = "done"
    /\ Len(results) = 2
    /\ ~IsFaulty(1) /\ ~IsFaulty(2)
    /\ clean_rows_list[1] # clean_rows_list[2]

(***************************************************************************)
(* Properties of the branch taken for a line                               *)
(***************************************************************************)
\* the branch the outcome of line i shows
TakenBranch(i) ==
    IF results[i].result.issues.carton_unit = 1 THEN "carton-unit"
    ELSE IF results[i].result.type = "clean" THEN "sku-valid"
    ELSE IF results[i].result.issues.sku_inferred = 1 \/ df_processed[i].sku = S_sentinel
    THEN "sku-missing"
    ELSE "sku-unauthorized"

\* a faulty line carries exactly one of the three faulty flags, a clean line none
OneBranchTaken(i) ==
    results[i].result.issues.carton_unit + results[i].result.issues.sku_inferred
        + results[i].result.issues.unauthorized_product
      = (IF IsFaulty(i) THEN 1 ELSE 0)

\* the first applicable branch, SKU-missing meaning the sentinel SKU
FirstApplicableBySentinel(i) ==
    IF CartonLine(i) THEN "carton-unit"
    ELSE IF df_processed[i].sku = S_sentinel THEN "sku-missing"
    ELSE IF MercurialeMatch(df_processed[i].sku) = <<>> THEN "sku-unauthorized"
    ELSE "sku-valid"

\* the first applicable branch, SKU-missing meaning the sentinel SKU when the
\* catalog has no entry under it
FirstApplicable(i) ==
    IF CartonLine(i) THEN "carton-unit"
    ELSE IF df_processed[i].sku = S_sentinel /\ MercurialeMatch(S_sentinel) = <<>> THEN "sku-missing"
    ELSE IF MercurialeMatch(df_processed[i].sku) = <<>> THEN "sku-unauthorized"
    ELSE "sku-valid"

\* C23 as stated: every line takes exactly one branch, the first applicable
\* of carton-unit, SKU-missing (sentinel SKU), SKU-unauthorized, SKU-valid,
\* and is clean only in the last
C23_FirstApplicableBranchWins ==
    \A i \in Processed :
        /\ OneBranchTaken(i)
        /\ TakenBranch(i) = FirstApplicableBySentinel(i)
        /\ ~IsFaulty(i) <=> TakenBranch(i) = "sku-valid"

\* C23: every line takes exactly one branch, the first applicable of
\* carton-unit, SKU-missing (sentinel SKU absent from the catalog),
\* SKU-unauthorized, SKU-valid; a carton-unit line is faulty even when its SKU
\* is in the catalog, and a line is clean only in the SKU-valid branch
C23_FirstApplicableBranchWinsUnlessSentinelListed ==
    \A i \in Processed :
        /\ OneBranchTaken(i)
        /\ TakenBranch(i) = FirstApplicable(i)
        /\ ~IsFaulty(i) <=> TakenBranch(i) = "sku-valid"
        /\ CartonLine(i) => IsFaulty(i) /\ results[i].result.rows[1].description = MsgCarton

\* a carton-unit line whose SKU is in the catalog was routed to faulty
C23_Witness ==
    \E i \in Processed :
        /\ CartonLine(i)
        /\ MercurialeMatch(df_processed[i].sku) # <<>>
        /\ IsFaulty(i)
        /\ TakenBranch(i) = "carton-unit"

(***************************************************************************)
(* Properties of the clean partition                                       *)
(***************************************************************************)
\* the clean row of line i
CleanRow(i) == clean_rows_list[CleanBefore(i) + 1]

\* the first catalog entry under the SKU of line i
OfficialEntry(i) == MercurialeMatch(df_processed[i].sku)[1]

\* the extracted description of line i differs from the official one after trimming
DescriptionDiffers(i) == Strip(df_processed[i].description) # Strip(OfficialEntry(i).description)

\* C24: every row of the clean partition has a SKU of the catalog and the
\* official description of the first catalog entry under that SKU, up to
\* trimming; the extracted description is overwritten with the official text,
\* and a description correction flagged, exactly when the two differ after
\* trimming, and is kept as extracted otherwise
C24_CleanRowsCarryOfficialDescription ==
    \A i \in CleanLines :
        /\ MercurialeMatch(CleanRow(i).sku) # <<>>
        /\ CleanRow(i).sku = df_processed[i].sku
        /\ Strip(CleanRow(i).description) = Strip(OfficialEntry(i).description)
        /\ IF DescriptionDiffers(i)
           THEN /\ CleanRow(i).description = OfficialEntry(i).description
                /\ results[i].result.issues.description_corrected = 1
           ELSE /\ CleanRow(i).description = df_processed[i].description
                /\ results[i].result.issues.description_corrected = 0

\* a clean line whose description was overwritten, under a SKU that two
\* catalog entries with different descriptions share
C24_Witness ==
    \E i \in CleanLines :
        /\ DescriptionDiffers(i)
        /\ Len(MercurialeMatch(df_processed[i].sku)) = 2
        /\ MercurialeMatch(df_processed[i].sku)[1].description
             # MercurialeMatch(df_processed[i].sku)[2].description
        /\ CleanRow(i).description = OfficialEntry(i).description

\* a clean line whose description was kept
C24_WitnessKept ==
    \E i \in CleanLines : ~DescriptionDiffers(i) /\ results[i].result.issues.description_corrected = 0

(***************************************************************************)
(* Properties of footer detection before the header                        *)
(***************************************************************************)
\* this step read a row and took it for a footer
FooterStep == ext_pc = "rows" /\ ext_pc' = "tables" /\ rows_read' = rows_read + 1

\* C25: a row is taken for a footer only once a header row has been set;
\* before that, a row whose first cell contains a footer keyword does not
\* stop the collection
C25_NoFooterBeforeHeader == [][FooterStep => header_row # NoHeader]_vars

(***************************************************************************)
(* Properties of header detection                                          *)
(***************************************************************************)
\* the extracted row is similar enough to the header phrase
SimilarToHeader(row) == ext_rules.header_fuzzy # <<>> /\ row.ratio >= ext_rules.fuzzy_threshold

\* frame rows are the given rows, in their order, padded to the frame's width
FrameRowsAre(rows) ==
    /\ Len(ext_df.rows) = Len(rows)
    /\ \A i \in 1..Len(rows) : SubSeq(ext_df.rows[i], 1, Len(rows[i])) = rows[i]

\* the header is set once, from a row similar enough to the header phrase,
\* and that row is not emitted
HeaderStep ==
    header_row' # header_row =>
        /\ header_row = NoHeader
        /\ all_rows' = all_rows
        /\ \E row \in RowPool : SimilarToHeader(row) /\ header_row' = CleanCells(row)

\* while no header is set, no row similar enough to the header phrase is
\* emitted as data: the header is the first such row to get past the cell
\* count and the footer test
EmitStep ==
    (all_rows' # all_rows /\ header_row = NoHeader) =>
        \A row \in SourcesOf(all_rows'[Len(all_rows')]) : ~SimilarToHeader(row)

\* the frame returned: empty without collected rows; otherwise its columns
\* are the detected header, or the first collected row when none was
\* detected, and its rows the remaining collected rows in document order
ReturnedFrame ==
    ext_pc = "returned" =>
        IF all_rows = <<>> THEN ext_df = EmptyFrame
        ELSE ext_df # EmptyFrame =>
               IF header_row # NoHeader
               THEN ext_df.columns = header_row /\ FrameRowsAre(all_rows)
               ELSE ext_df.columns = Head(all_rows) /\ FrameRowsAre(Tail(all_rows))

C26_WitnessFallback ==
    /\ ext_pc = "returned"
    /\ header_row = NoHeader
    /\ Len(all_rows) = 2
    /\ ext_df.columns = Head(all_rows)
    /\ Len(ext_df.rows) = 1

(***************************************************************************)
(* Properties of the condition operators                                   *)
(***************************************************************************)
\* the five operators of an assignment condition, as the evaluators spell
\* the prefix and suffix tests and as the rules table documentation does
FiveOperators == {"equals", "contains", "not_equals", "startswith", "endswith", "starts_with", "ends_with"}

\* what the operator means on two texts
OperatorHolds(operator, field_value, condition_value) ==
    CASE operator = "equals" -> field_value = condition_value
      [] operator = "contains" -> Contains(field_value, condition_value)
      [] operator = "not_equals" -> field_value # condition_value
      [] operator \in {"startswith", "starts_with"} -> StartsWith(field_value, condition_value)
      [] operator \in {"endswith", "ends_with"} -> EndsWith(field_value, condition_value)
      [] OTHER -> FALSE

\* C27: in every implementation of the pass, a condition with one of the five
\* operators equals, contains, not_equals, starts with, ends with matches a
\* customer exactly when the operator holds between the customer's field
\* value and the comparison value, both with case removed
C27_ConditionMatchesWhenOperatorHolds ==
    \A c \in 1..Len(evaluated) : \A j \in 1..Len(evaluated[c]) :
        LET cond == conditions[evaluated[c][j].cond]
        IN  (~evaluated[c][j].skipped /\ cond.operator \in FiveOperators) =>
                evaluated[c][j].match =
                    OperatorHolds(cond.operator, Upper(GetField(customers[c], cond.field)), Upper(cond.value))

\* the same statement for AssignmentImporter alone
C27_AssignmentImporterOperators ==
    asg_impl = "AssignmentImporter" => C27_ConditionMatchesWhenOperatorHolds

(***************************************************************************)
(* Properties of the assigned flag                                         *)
(***************************************************************************)
\* the evaluated conditions that matched customer c and whose target
\* catalog exists
EvaluatedBinding(c) ==
    {j \in 1..Len(evaluated[c]) :
        evaluated[c][j].match /\ conditions[evaluated[c][j].cond].mercuriale_name \in mercuriales}

\* the evaluated conditions that matched customer c and whose target
\* catalog is absent
EvaluatedAbsent(c) ==
    {j \in 1..Len(evaluated[c]) :
        evaluated[c][j].match /\ conditions[evaluated[c][j].cond].mercuriale_name \notin mercuriales}

\* customer c is bound by the last evaluated matching condition whose target
\* exists; without one it is bound by the default step
BoundAsAssigned(c) ==
    IF EvaluatedBinding(c) # {}
    THEN customers[c].mercuriale = conditions[LastOf(EvaluatedBinding(c))].mercuriale_name
    ELSE DefaultedOrUntouched(c)

\* the two counters of the pass: bindings made by conditions, customers
\* bound by the default step
CountersOfThePass ==
    /\ assigned_count = Cardinality({cj \in (1..Len(customers)) \X (1..Len(conditions)) :
                                        cj[2] \in EvaluatedBinding(cj[1])})
    /\ unassigned_count =
          IF DefaultMercuriale \in mercuriales
          THEN Cardinality({c \in 1..Len(customers) : EvaluatedBinding(c) = {}})
          ELSE 0

\* C28: a customer counts as assigned only through a matching condition
\* whose target catalog exists; a matching condition whose target is absent
\* binds nothing and, when required, is still the last one evaluated; the
\* customer is bound to the default catalog exactly when no evaluated
\* matching condition had an existing target
C28_AssignedOnlyByExistingTarget ==
    /\ \A c \in 1..Len(customers) : Finished(c) =>
          /\ \A j \in EvaluatedAbsent(c) : MatchedRequired(c, j) => j = Len(evaluated[c])
          /\ BoundAsAssigned(c)
    /\ asg_pc = "done" => CountersOfThePass

\* the same statement for the passes that do not return before the customer
\* loop
C28_AssignedOnlyByExistingTargetAfterLoop ==
    (asg_impl = "CustomerAssignmentImporter" \/ conditions # <<>>) => C28_AssignedOnlyByExistingTarget

\* a required condition with an absent target matched the customer: nothing
\* was bound by it, evaluation stopped there and the default step bound
C28_AbsentTargetStopsAndDefaults ==
    /\ asg_pc = "done"
    /\ \E c \in 1..Len(customers) :
          /\ Len(evaluated[c]) = 1
          /\ Len(conditions) = 2
          /\ EvaluatedAbsent(c) = {1}
          /\ MatchedRequired(c, 1)
          /\ InitialBinding(c) # DefaultMercuriale
          /\ customers[c].mercuriale = DefaultMercuriale

(***************************************************************************)
(* Properties of a repeated pass                                           *)
(***************************************************************************)
\* customer c as it was before the pass
InitialCustomer(c) == [customers[c] EXCEPT !.mercuriale = InitialBinding(c)]

\* no evaluated matching condition of customer c had an existing target and
\* the default catalog is absent
NothingToBind(c) == EvaluatedBinding(c) = {} /\ DefaultMercuriale \notin mercuriales

C29_WitnessRebound ==
    /\ asg_pc = "done"
    /\ \E c \in 1..Len(customers) :
          /\ InitialBinding(c) # NoMercuriale
          /\ customers[c].mercuriale # InitialBinding(c)
          /\ assign_customer(customers[c]) = customers[c].mercuriale

(***************************************************************************)
(* Properties of the error counter                                         *)
(***************************************************************************)
\* the identifier of the k-th Error row: k as text, zero-padded to six digits
ErrorId(k) == ZFill(IntToStr(k), 6)

\* the number of faulty lines in the faulty partition so far
FaultyPairs == Len(faulty_rows_list) \div 2

\* C30: within one run the error counter starts at 0 and is the number of
\* faulty lines processed so far, a clean line leaving it as it is; the k-th
\* faulty line in input order yields an Error row whose SKU is k zero-padded
\* to six digits, so the Error rows of the faulty partition carry distinct,
\* strictly increasing identifiers
C30_ErrorCounterNumbersFaultyLines ==
    /\ v_pc = "loop" /\ results = <<>> => error_counter = 0
    /\ error_counter = Cardinality(FaultyLines)
    /\ \A i \in FaultyLines :
          /\ results[i].result.rows[1].type = "Error"
          /\ results[i].result.rows[1].sku = ErrorId(FaultyBefore(i) + 1)
          /\ Len(results[i].result.rows[1].sku) = 6
    /\ Len(faulty_rows_list) = 2 * Cardinality(FaultyLines)
    /\ \A k \in 1..FaultyPairs :
          /\ faulty_rows_list[2 * k - 1].type = "Error"
          /\ faulty_rows_list[2 * k - 1].sku = ErrorId(k)
          /\ faulty_rows_list[2 * k].type # "Error"
    /\ \A k, l \in 1..FaultyPairs :
          k < l => ParseNat(faulty_rows_list[2 * k - 1].sku) < ParseNat(faulty_rows_list[2 * l - 1].sku)

\* two faulty lines: their Error rows are numbered 000001 and 000002
C30_Witness ==
    /\ v_pc = "done"
    /\ Len(results) = 2
    /\ IsFaulty(1) /\ IsFaulty(2)
    /\ error_counter = 2
    /\ faulty_rows_list[1].sku = <<"0", "0", "0", "0", "0", "1">>
    /\ faulty_rows_list[3].sku = <<"0", "0", "0", "0", "0", "2">>

\* a clean line before a faulty one: the faulty line is numbered 000001
C30_WitnessAfterClean ==
    /\ v_pc = "done"
    /\ Len(results) = 2
    /\ ~IsFaulty(1) /\ IsFaulty(2)
    /\ error_counter = 1
    /\ faulty_rows_list[1].sku = <<"0", "0", "0", "0", "0", "1">>

====
